---- MODULE Spec2Model ----
(***************************************************************************)
(* Formulation-metrics engine of pitaralab: calcMetrics, the row-based     *)
(* sugar-split revision of it, the name-keyed calculateRecipeMetrics and   *)
(* classifyRecipe (src/src/lib/calc.ts) over the ingredient catalog        *)
(* (src/src/lib/ingredientLibrary.ts).                                     *)
(*                                                                         *)
(* Numbers.  A JavaScript number is modelled as an exact rational          *)
(* [n |-> numerator, d |-> denominator] in lowest terms with d > 0.        *)
(* d = 0 marks a value that is not a finite number: Undefined (an absent   *)
(* optional field) and NaN (the result of arithmetic on a non-number or of *)
(* a division by zero; +-Infinity is folded into it).  IEEE-754 rounding   *)
(* is not modelled: every arithmetic step is exact.                        *)
(***************************************************************************)
EXTENDS Integers, Sequences, FiniteSets, TLC

VARIABLES
    call,            \* which entry point the inputs of this run are for
    rows,            \* calcMetrics input: sequence of [ing, grams]
    opts,            \* calcMetrics input: CalcOptions
    recipe,          \* calculateRecipeMetrics input: name -> amount
    evaporationPct,  \* calculateRecipeMetrics input
    metrics,         \* <<>> or <<result of calcMetrics(rows, opts)>>
    metricsRows,     \* <<>> or <<result of the row-based sugar-split body>>
    recipeMetrics,   \* <<>> or <<result of calculateRecipeMetrics>>
    clsInput,        \* classifyRecipe input: RecipeMetrics (the six fields read)
    clsOutput,       \* sequence of the archetypes classifyRecipe returned for clsInput
    legacyRows,      \* <<>> or <<rows convertLegacyRecipeToRows made of recipe>>
    valInput,        \* input of a band check or of generateValidationMessages
    valOutput,       \* <<>> or <<its result>>
    advInput,        \* advise input: [paste, prefs]
    advOutput,       \* <<>> or <<the list advise returned>>
    optInput,        \* optimize input: [seed, targets, maxIterations, stepScale]
    optState,        \* the optimizer's loop state
    engine           \* the FlavourEngine component: its state and its pending timer

vars == <<call, rows, opts, recipe, evaporationPct, metrics, metricsRows,
          recipeMetrics, clsInput, clsOutput, legacyRows, valInput, valOutput,
          advInput, advOutput, optInput, optState, engine>>

\* The variables of the validator, the advisor and the optimizer.
valVars == <<valInput, valOutput>>
advVars == <<advInput, advOutput>>
optVars == <<optInput, optState>>

(***************************************************************************)
(* Exact arithmetic on JavaScript numbers                                  *)
(***************************************************************************)
Undefined == [n |-> 0, d |-> 0]
NaN == [n |-> 1, d |-> 0]

IsFinite(x) == x.d # 0

Abs(i) == IF i < 0 THEN -i ELSE i

RECURSIVE GCD(_, _)
GCD(a, b) == IF b = 0 THEN a ELSE GCD(b, a % b)

\* n/d in lowest terms, the sign carried by the numerator.
Norm(n, d) ==
    IF d = 0 THEN NaN
    ELSE LET g == GCD(Abs(n), Abs(d))
             s == IF d < 0 THEN -1 ELSE 1
         IN  [n |-> s * (n \div g), d |-> s * (d \div g)]

Q(i) == [n |-> i, d |-> 1]
\* A decimal literal: Dec(887, 10) is 88.7.
Dec(n, d) == Norm(n, d)

Add(a, b) ==
    IF ~IsFinite(a) \/ ~IsFinite(b) THEN NaN
    ELSE LET g == GCD(a.d, b.d)
         IN  Norm(a.n * (b.d \div g) + b.n * (a.d \div g), (a.d \div g) * b.d)

Neg(a) == IF IsFinite(a) THEN [n |-> -a.n, d |-> a.d] ELSE NaN

Sub(a, b) == Add(a, Neg(b))

Mul(a, b) ==
    IF ~IsFinite(a) \/ ~IsFinite(b) THEN NaN
    ELSE LET g1 == GCD(Abs(a.n), b.d)
             g2 == GCD(Abs(b.n), a.d)
         IN  Norm((a.n \div g1) * (b.n \div g2), (a.d \div g2) * (b.d \div g1))

\* x / 0 is NaN or +-Infinity in JavaScript: not a finite number either way.
Div(a, b) ==
    IF ~IsFinite(a) \/ ~IsFinite(b) \/ b.n = 0 THEN NaN
    ELSE Mul(a, Norm(b.d, b.n))

\* a < b; false when either side is not a number.
Lt(a, b) ==
    /\ IsFinite(a)
    /\ IsFinite(b)
    /\ LET g == GCD(a.d, b.d)
       IN  a.n * (b.d \div g) < b.n * (a.d \div g)

Gt(a, b) == Lt(b, a)
Le(a, b) == IsFinite(a) /\ IsFinite(b) /\ ~Lt(b, a)
Ge(a, b) == Le(b, a)

\* Math.max / Math.min of two numbers (NaN if either is).
MathMax(a, b) == IF ~IsFinite(a) \/ ~IsFinite(b) THEN NaN ELSE IF Lt(a, b) THEN b ELSE a
MathMin(a, b) == IF ~IsFinite(a) \/ ~IsFinite(b) THEN NaN ELSE IF Lt(b, a) THEN b ELSE a
MathAbs(a) == IF ~IsFinite(a) THEN NaN ELSE [n |-> Abs(a.n), d |-> a.d]

\* x || dflt on numbers: undefined, NaN and 0 are falsy.
OrElse(x, dflt) == IF ~IsFinite(x) \/ x.n = 0 THEN dflt ELSE x
\* x ?? dflt: only undefined (and null) give the default.
Nullish(x, dflt) == IF x = Undefined THEN dflt ELSE x

RECURSIVE SumSeq(_)
SumSeq(s) == IF s = <<>> THEN Q(0) ELSE Add(SumSeq(SubSeq(s, 1, Len(s) - 1)), s[Len(s)])

(***************************************************************************)
(* Ingredient catalog (ingredientLibrary.ts)                               *)
(***************************************************************************)
NoSplit == <<>>

\* An IngredientData record; optional fields that are absent hold Undefined.
Ing(id, name, category, water, fat, msnf, other, sugars, sp, pac, cost) ==
    [id |-> id, name |-> name, category |-> category,
     water_pct |-> water, fat_pct |-> fat, msnf_pct |-> msnf,
     other_solids_pct |-> other, sugars_pct |-> sugars,
     sp_coeff |-> sp, pac_coeff |-> pac, cost_per_kg |-> cost,
     sugar_split |-> NoSplit]

U == Undefined

DEFAULT_INGREDIENTS == <<
    Ing("sucrose", "Sucrose", "sugar", Q(0), Q(0), U, U, Q(100), Q(1), Q(100), Q(45)),
    Ing("dextrose", "Dextrose", "sugar", Q(0), Q(0), U, U, Q(100), Dec(74, 100), Q(190), Q(55)),
    Ing("glucose_de60", "Glucose Syrup DE60", "sugar", Q(20), Q(0), U, Q(0), Q(80), Dec(50, 100), Q(118), Q(38)),
    Ing("lactose", "Lactose", "sugar", Q(0), Q(0), U, U, Q(100), Dec(16, 100), Q(62), Q(85)),
    Ing("milk_3", "Milk 3% fat", "dairy", Dec(887, 10), Q(3), Dec(85, 10), U, U, U, U, Q(25)),
    Ing("cream_25", "Cream 25% fat", "dairy", Dec(682, 10), Q(25), Dec(68, 10), U, U, U, U, Q(120)),
    Ing("smp", "Skim Milk Powder", "dairy", Dec(35, 10), Q(1), Q(93), U, U, U, U, Q(180)),
    Ing("stabilizer", "Stabilizer Blend", "stabilizer", Q(0), Q(0), U, Q(100), U, U, U, Q(850)),
    Ing("gulab_jamun_paste", "Gulab Jamun Paste", "flavor", Dec(416, 10), Dec(54, 10), Dec(81, 10), Dec(338, 100), Dec(4252, 100), Dec(85, 100), Q(125), Q(320)),
    Ing("gulab_jamun", "Gulab Jamun (pieces)", "flavor", Q(30), Q(6), Q(8), Dec(41, 10), Dec(519, 10), Dec(90, 100), Q(135), Q(280)),
    Ing("rabri", "Rabri", "flavor", Dec(536, 10), Q(18), Dec(956, 100), Dec(784, 100), Dec(1436, 100), Dec(75, 100), Q(95), Q(450)),
    Ing("jalebi", "Jalebi", "flavor", Dec(3855, 100), Dec(636, 100), Dec(236, 100), Dec(1818, 100), Dec(3455, 100), Dec(95, 100), Q(145), Q(350)),
    Ing("cocoa_dp", "Cocoa Powder (Dutch)", "flavor", Q(0), Q(23), U, Dec(624, 10), Dec(5, 10), Dec(1, 10), Q(15), Q(680)),
    Ing("heavy_cream", "Heavy Cream", "dairy", Dec(573, 10), Q(38), Dec(47, 10), U, U, U, U, Q(180)),
    Ing("whole_milk", "Whole Milk", "dairy", Dec(874, 10), Dec(37, 10), Dec(89, 10), U, U, U, U, Q(28)),
    Ing("egg_yolks", "Egg Yolks", "other", Dec(504, 10), Dec(319, 10), U, Dec(177, 10), U, Dec(1, 10), Q(25), Q(450)),
    Ing("vanilla_extract", "Vanilla Extract", "flavor", Q(65), Q(0), U, Q(35), U, Dec(2, 10), Q(30), Q(3200))
>>

\* Array.prototype.find on the catalog: the index of the first element satisfying
\* the test; the lookups return <<record>>, or <<>> for null.
Null == <<>>

First(idx) == CHOOSE i \in idx : \A j \in idx : i <= j

getIngredientById(id) ==
    LET idx == {i \in 1..Len(DEFAULT_INGREDIENTS) : DEFAULT_INGREDIENTS[i].id = id}
    IN  IF idx = {} THEN Null ELSE <<DEFAULT_INGREDIENTS[First(idx)]>>

getSeedIngredients == DEFAULT_INGREDIENTS

(***************************************************************************)
(* calcMetrics (calc.ts 41-88)                                             *)
(***************************************************************************)
\* g * (ing.x_pct || 0) / 100
Part(g, x_pct) == Div(Mul(g, OrElse(x_pct, Q(0))), Q(100))

\* Line 58: Math.max(0, Math.min(100, opts.evaporation_pct ?? 0))
clampEvaporation(o) == MathMax(Q(0), MathMin(Q(100), Nullish(o.evaporation_pct, Q(0))))

\* Line 59: water_g * (1 - evap / 100)
waterAfterEvap(water_g, evap) == Mul(water_g, Sub(Q(1), Div(evap, Q(100))))

\* Line 60: total_g - (water_g - water_evap_g)
\* Variant: the remaining water taken off the total instead of the evaporated water.
totalAfterEvap_lessRemaining(total_g, water_g, water_evap_g) == Sub(total_g, water_evap_g)

totalAfterEvap(total_g, water_g, water_evap_g) == Sub(total_g, Sub(water_g, water_evap_g))

\* Line 63: sugars_g + fat_g + msnf_g + other_g
\* Variant: the additive total solids without the other solids.
tsAdd_withoutOther(sugars_g, fat_g, msnf_g, other_g) == Add(Add(sugars_g, fat_g), msnf_g)

tsAdd(sugars_g, fat_g, msnf_g, other_g) == Add(Add(Add(sugars_g, fat_g), msnf_g), other_g)

\* Lines 45-55: the total and the component masses before evaporation.
lineMasses(rws) ==
    LET N == Len(rws)
    IN  [total_g |-> SumSeq([i \in 1..N |-> OrElse(rws[i].grams, Q(0))]),
         water_g |-> SumSeq([i \in 1..N |->
                        Part(OrElse(rws[i].grams, Q(0)), rws[i].ing.water_pct)]),
         sugars_g |-> SumSeq([i \in 1..N |->
                        Part(OrElse(rws[i].grams, Q(0)), rws[i].ing.sugars_pct)]),
         fat_g |-> SumSeq([i \in 1..N |->
                        Part(OrElse(rws[i].grams, Q(0)), rws[i].ing.fat_pct)]),
         msnf_g |-> SumSeq([i \in 1..N |->
                        Part(OrElse(rws[i].grams, Q(0)), rws[i].ing.msnf_pct)]),
         other_g |-> SumSeq([i \in 1..N |->
                        Part(OrElse(rws[i].grams, Q(0)), rws[i].ing.other_solids_pct)])]

\* Lines 57-64: evaporation and the two total-solids masses, m being the line masses
\* and water_evap_g the water left.
\* Variant: the mass-balance solids taken from the total before evaporation.
afterEvaporation_massFromTotal(m, water_evap_g) ==
    [total_after_evap_g |-> totalAfterEvap(m.total_g, m.water_g, water_evap_g),
     water_evap_g |-> water_evap_g,
     sugars_g |-> m.sugars_g, fat_g |-> m.fat_g, msnf_g |-> m.msnf_g, other_g |-> m.other_g,
     ts_add_g |-> tsAdd(m.sugars_g, m.fat_g, m.msnf_g, m.other_g),
     ts_mass_g |-> Sub(m.total_g, water_evap_g)]

afterEvaporation(m, water_evap_g) ==
    [total_after_evap_g |-> totalAfterEvap(m.total_g, m.water_g, water_evap_g),
     water_evap_g |-> water_evap_g,
     sugars_g |-> m.sugars_g, fat_g |-> m.fat_g, msnf_g |-> m.msnf_g, other_g |-> m.other_g,
     ts_add_g |-> tsAdd(m.sugars_g, m.fat_g, m.msnf_g, m.other_g),
     ts_mass_g |-> Sub(totalAfterEvap(m.total_g, m.water_g, water_evap_g), water_evap_g)]

evaporate(m, evap) == afterEvaporation(m, waterAfterEvap(m.water_g, evap))

\* Lines 45-64.
calcMasses(rws, o) == evaporate(lineMasses(rws), clampEvaporation(o))

\* Line 61: pct = x => total_after_evap_g > 0 ? (x / total_after_evap_g) * 100 : 0
\* Variant: the percentage without the guard on the denominator.
pct_unguarded(x, total_after_evap_g) == Mul(Div(x, total_after_evap_g), Q(100))

pct(x, total_after_evap_g) ==
    IF Gt(total_after_evap_g, Q(0)) THEN Mul(Div(x, total_after_evap_g), Q(100)) ELSE Q(0)

\* Variant: every sugar as sweet as sucrose.
spCoeff_sucrose(ing) == Q(1)

\* Lines 73-74: the coefficient pair calcMetrics uses for a line.
spCoeff(ing) == OrElse(ing.sp_coeff, Q(1))
pacCoeff(ing) == OrElse(ing.pac_coeff, Q(1))

\* Variant: the sugar mass weighted without relating it to the final mass.
sugarTerm_perMass(row, coeff, total_after_evap_g) ==
    LET g == OrElse(row.grams, Q(0))
        sug_g == Part(g, row.ing.sugars_pct)
    IN  IF Le(sug_g, Q(0)) \/ Le(total_after_evap_g, Q(0)) THEN Q(0)
        ELSE Mul(Mul(sug_g, coeff), Q(100))

\* Lines 69-77: one line's addition to sp (coeff = spCoeff) or pac (coeff = pacCoeff);
\* 0 when the line is skipped by `continue`.
sugarTerm(row, coeff, total_after_evap_g) ==
    LET g == OrElse(row.grams, Q(0))
        sug_g == Part(g, row.ing.sugars_pct)
    IN  IF Le(sug_g, Q(0)) \/ Le(total_after_evap_g, Q(0)) THEN Q(0)
        ELSE Mul(Mul(Div(sug_g, total_after_evap_g), coeff), Q(100))

\* Lines 80-87: the Metrics record.
MetricsRecord(b, sp, pac) ==
    LET T == b.total_after_evap_g
    IN  [total_g |-> T, water_g |-> b.water_evap_g, sugars_g |-> b.sugars_g,
         fat_g |-> b.fat_g, msnf_g |-> b.msnf_g, other_g |-> b.other_g,
         water_pct |-> pct(b.water_evap_g, T), sugars_pct |-> pct(b.sugars_g, T),
         fat_pct |-> pct(b.fat_g, T), msnf_pct |-> pct(b.msnf_g, T),
         other_pct |-> pct(b.other_g, T),
         ts_add_g |-> b.ts_add_g, ts_mass_g |-> b.ts_mass_g,
         ts_add_pct |-> pct(b.ts_add_g, T), ts_mass_pct |-> pct(b.ts_mass_g, T),
         sp |-> sp, pac |-> pac]

\* Lines 66-78: the sp and pac sums over the lines, b being the masses.
metricsOf(rws, b) ==
    MetricsRecord(b,
        SumSeq([i \in 1..Len(rws) |->
            sugarTerm(rws[i], spCoeff(rws[i].ing), b.total_after_evap_g)]),
        SumSeq([i \in 1..Len(rws) |->
            sugarTerm(rws[i], pacCoeff(rws[i].ing), b.total_after_evap_g)]))

calcMetrics(rws, o) == metricsOf(rws, calcMasses(rws, o))

(***************************************************************************)
(* Strings.  TLC strings are atomic, so toLowerCase and includes are given *)
(* as tables over the strings the model uses.                              *)
(***************************************************************************)
LowerCaseOf ==
    [s \in {"Sucrose", "Dextrose", "Glucose Syrup DE60", "Lactose", "Milk 3% fat",
            "Cream 25% fat", "Skim Milk Powder", "Stabilizer Blend",
            "Gulab Jamun Paste", "Gulab Jamun (pieces)", "Rabri", "Jalebi",
            "Cocoa Powder (Dutch)", "Heavy Cream", "Whole Milk", "Egg Yolks",
            "Vanilla Extract", "Mango Pulp", "SUCROSE", "Cream"} |->
        CASE s = "Sucrose" -> "sucrose"
          [] s = "SUCROSE" -> "sucrose"
          [] s = "Dextrose" -> "dextrose"
          [] s = "Glucose Syrup DE60" -> "glucose syrup de60"
          [] s = "Lactose" -> "lactose"
          [] s = "Milk 3% fat" -> "milk 3% fat"
          [] s = "Cream 25% fat" -> "cream 25% fat"
          [] s = "Skim Milk Powder" -> "skim milk powder"
          [] s = "Stabilizer Blend" -> "stabilizer blend"
          [] s = "Gulab Jamun Paste" -> "gulab jamun paste"
          [] s = "Gulab Jamun (pieces)" -> "gulab jamun (pieces)"
          [] s = "Rabri" -> "rabri"
          [] s = "Jalebi" -> "jalebi"
          [] s = "Cocoa Powder (Dutch)" -> "cocoa powder (dutch)"
          [] s = "Heavy Cream" -> "heavy cream"
          [] s = "Whole Milk" -> "whole milk"
          [] s = "Egg Yolks" -> "egg yolks"
          [] s = "Vanilla Extract" -> "vanilla extract"
          [] s = "Mango Pulp" -> "mango pulp"
          [] s = "Cream" -> "cream"]

\* String.prototype.toLowerCase; a string without upper-case letters is unchanged.
toLowerCase(s) == IF s \in DOMAIN LowerCaseOf THEN LowerCaseOf[s] ELSE s

\* String.prototype.includes for the ingredient ids of the model and the sugar
\* names probed at calc.ts 148-152, and for the lower-cased names compared by
\* convertLegacyRecipeToRows.
includes(s, sub) ==
    \/ s = sub
    \/ <<s, sub>> \in {<<"glucose_de60", "glucose">>, <<"dextrose_mono", "dextrose">>,
                       <<"invert_sugar", "invert">>,
                       <<"cream 25% fat", "cream">>, <<"heavy cream", "cream">>,
                       <<"fine sucrose", "sucrose">>,
                       <<"milk 3% fat", "milk">>, <<"skim milk powder", "milk">>,
                       <<"whole milk", "milk">>}

\* s.replace(/\s+/g, '_') for the lower-cased names of the model; a string without
\* white space is unchanged.
WhitespaceReplaced ==
    [s \in {"mango pulp", "cocoa dp", "fine sucrose", "cream 25% fat", "milk 3% fat"} |->
        CASE s = "mango pulp" -> "mango_pulp"
          [] s = "cocoa dp" -> "cocoa_dp"
          [] s = "fine sucrose" -> "fine_sucrose"
          [] s = "cream 25% fat" -> "cream_25%_fat"
          [] s = "milk 3% fat" -> "milk_3%_fat"]

replaceWhitespace(s) == IF s \in DOMAIN WhitespaceReplaced THEN WhitespaceReplaced[s] ELSE s

getIngredientByName(name) ==
    LET idx == {i \in 1..Len(DEFAULT_INGREDIENTS) :
                    toLowerCase(DEFAULT_INGREDIENTS[i].name) = toLowerCase(name)}
    IN  IF idx = {} THEN Null ELSE <<DEFAULT_INGREDIENTS[First(idx)]>>

(***************************************************************************)
(* The row-based body with the sugar table and the fruit sugar split       *)
(* (calc.ts 90-169).  The source declares it under the name                *)
(* calculateRecipeMetrics(recipe, evaporationPct), but its body reads rows *)
(* and opts exactly as calcMetrics does; they are its parameters here.     *)
(***************************************************************************)
\* Lines 116-123.
coeff ==
    [sucrose |-> [sp |-> Q(1), pac |-> Q(1)],
     dextrose |-> [sp |-> Dec(74, 100), pac |-> Dec(190, 100)],
     fructose |-> [sp |-> Dec(173, 100), pac |-> Dec(190, 100)],
     invert |-> [sp |-> Dec(125, 100), pac |-> Dec(190, 100)],
     lactose |-> [sp |-> Dec(16, 100), pac |-> Q(1)],
     glucose_de60 |-> [sp |-> Dec(50, 100), pac |-> Dec(118, 100)]]

\* Lines 145-152: the table entry for an ingredient that takes the else branch.
tableCoeff(ing) ==
    LET id == toLowerCase(ing.id)
    IN  IF id \in DOMAIN coeff THEN coeff[id]
        ELSE IF includes(id, "dextrose") \/ includes(id, "glucose") THEN coeff.dextrose
        ELSE IF includes(id, "fructose") THEN coeff.fructose
        ELSE IF includes(id, "invert") THEN coeff.invert
        ELSE IF includes(id, "lactose") THEN coeff.lactose
        ELSE IF includes(id, "glucose_de60") THEN coeff.glucose_de60
        ELSE coeff.sucrose

\* Variant: the split taken as percentages of 100 whatever its sum.
splitNorm_hundred(s) == Q(100)

\* Line 133: (s.glucose ?? 0) + (s.fructose ?? 0) + (s.sucrose ?? 0) || 100
splitNorm(s) ==
    OrElse(Add(Add(Nullish(s.glucose, Q(0)), Nullish(s.fructose, Q(0))),
               Nullish(s.sucrose, Q(0))), Q(100))

\* Lines 134-143: a fruit line's addition to sp (k = "sp") or pac (k = "pac").
splitTerm(sug_g, s, k, T) ==
    LET norm == splitNorm(s)
        g_glu == Mul(sug_g, Div(Nullish(s.glucose, Q(0)), norm))
        g_fru == Mul(sug_g, Div(Nullish(s.fructose, Q(0)), norm))
        g_suc == Mul(sug_g, Div(Nullish(s.sucrose, Q(0)), norm))
    IN  Add(Add(Mul(Mul(Div(g_glu, T), coeff.dextrose[k]), Q(100)),
                Mul(Mul(Div(g_fru, T), coeff.fructose[k]), Q(100))),
            Mul(Mul(Div(g_suc, T), coeff.sucrose[k]), Q(100)))

\* Lines 126-155: one line's addition to sp or pac; 0 when skipped by `continue`.
rowsTerm(row, k, T) ==
    LET g == OrElse(row.grams, Q(0))
        sug_g == Part(g, row.ing.sugars_pct)
    IN  IF Le(sug_g, Q(0)) \/ Le(T, Q(0)) THEN Q(0)
        ELSE IF row.ing.category = "fruit" /\ row.ing.sugar_split # NoSplit
             THEN splitTerm(sug_g, row.ing.sugar_split[1], k, T)
             ELSE Mul(Mul(Div(sug_g, T), tableCoeff(row.ing)[k]), Q(100))

\* Lines 125-156: the sp and pac sums over the lines, b being the masses.
metricsRowsOf(rws, b) ==
    MetricsRecord(b,
        SumSeq([i \in 1..Len(rws) |-> rowsTerm(rws[i], "sp", b.total_after_evap_g)]),
        SumSeq([i \in 1..Len(rws) |-> rowsTerm(rws[i], "pac", b.total_after_evap_g)]))

calculateRecipeMetrics_rows(rws, o) == metricsRowsOf(rws, calcMasses(rws, o))

(***************************************************************************)
(* calculateRecipeMetrics (calc.ts 174-283), the name-keyed form           *)
(***************************************************************************)
\* Lines 178-190: the accumulators before the loop.
recipeTotalsInit ==
    [totalWater |-> Q(0), totalSugars |-> Q(0), totalFat |-> Q(0), totalMsnf |-> Q(0),
     totalOtherSolids |-> Q(0), totalSp |-> Q(0), totalPac |-> Q(0),
     totalWeight |-> Q(0), totalCost |-> Q(0),
     spContributions |-> <<>>, pacContributions |-> <<>>, messages |-> <<>>]

\* Lines 193-236: the forEach callback on one entry, acc being the accumulators.
recipeEntry(acc, ingredientName, amount) ==
    LET found == getIngredientByName(ingredientName)
    IN  IF Le(amount, Q(0)) THEN acc
        ELSE IF found = Null
        THEN [acc EXCEPT !.messages =
                  Append(@, <<"Warning: Unknown ingredient", ingredientName>>)]
        ELSE
            LET ingredient == found[1]
                waterContent == Div(Mul(amount, ingredient.water_pct), Q(100))
                sugarContent == Div(Mul(amount, OrElse(ingredient.sugars_pct, Q(0))), Q(100))
                fatContent == Div(Mul(amount, ingredient.fat_pct), Q(100))
                msnfContent == Div(Mul(amount, OrElse(ingredient.msnf_pct, Q(0))), Q(100))
                otherSolidsContent ==
                    Div(Mul(amount, OrElse(ingredient.other_solids_pct, Q(0))), Q(100))
                spContribution == Mul(sugarContent, OrElse(ingredient.sp_coeff, Q(0)))
                pacContribution ==
                    Div(Mul(sugarContent, OrElse(ingredient.pac_coeff, Q(0))), Q(100))
            IN  [acc EXCEPT
                   !.totalWeight = Add(@, amount),
                   !.totalWater = Add(@, waterContent),
                   !.totalSugars = Add(@, sugarContent),
                   !.totalFat = Add(@, fatContent),
                   !.totalMsnf = Add(@, msnfContent),
                   !.totalOtherSolids = Add(@, otherSolidsContent),
                   !.totalSp = Add(@, spContribution),
                   !.spContributions = (ingredientName :> spContribution) @@ @,
                   !.totalPac = Add(@, pacContribution),
                   !.pacContributions = (ingredientName :> pacContribution) @@ @,
                   !.totalCost = Add(@, Mul(Div(amount, Q(1000)),
                                            OrElse(ingredient.cost_per_kg, Q(0))))]

\* Line 193: Object.entries(recipe).forEach(...), in the order of the entries.
RECURSIVE recipeTotals(_)
recipeTotals(entries) ==
    IF entries = <<>> THEN recipeTotalsInit
    ELSE recipeEntry(recipeTotals(SubSeq(entries, 1, Len(entries) - 1)),
                     entries[Len(entries)].name, entries[Len(entries)].amount)

\* Lines 256-263: x => totalWeight > 0 ? (x / totalWeight) * 100 : 0
recipePct(x, totalWeight) ==
    IF Gt(totalWeight, Q(0)) THEN Mul(Div(x, totalWeight), Q(100)) ELSE Q(0)

\* Lines 238-244: if (evaporationPct > 0) { ... }
applyEvaporation(acc, evapPct) ==
    LET evaporatedWater == Mul(acc.totalWater, Div(evapPct, Q(100)))
    IN  IF Gt(evapPct, Q(0))
        THEN [acc EXCEPT !.totalWater = Sub(@, evaporatedWater),
                         !.totalWeight = Sub(@, evaporatedWater),
                         !.messages = Append(@, <<"Evaporation">>)]
        ELSE acc

\* Lines 246-250: the two total-solids masses, their difference and the warning flag.
\* Variant: the warning from 5% of the total weight on.
totalSolids_fivePercent(acc) ==
    LET tsAdditive == Add(Add(Add(acc.totalSugars, acc.totalFat), acc.totalMsnf),
                          acc.totalOtherSolids)
        tsMassBalance == Sub(acc.totalWeight, acc.totalWater)
        tsDifference == MathAbs(Sub(tsAdditive, tsMassBalance))
    IN  [tsAdditive |-> tsAdditive, tsMassBalance |-> tsMassBalance,
         tsDifference |-> tsDifference,
         tsWarning |-> Gt(tsDifference, Mul(acc.totalWeight, Dec(5, 100)))]

totalSolids(acc) ==
    LET tsAdditive == Add(Add(Add(acc.totalSugars, acc.totalFat), acc.totalMsnf),
                          acc.totalOtherSolids)
        tsMassBalance == Sub(acc.totalWeight, acc.totalWater)
        tsDifference == MathAbs(Sub(tsAdditive, tsMassBalance))
    IN  [tsAdditive |-> tsAdditive, tsMassBalance |-> tsMassBalance,
         tsDifference |-> tsDifference,
         tsWarning |-> Gt(tsDifference, Mul(acc.totalWeight, Dec(5, 1000)))]

\* Lines 252-283: the warning message, the percentages and the returned record.
recipeResult(acc, ts) ==
    [water |-> recipePct(acc.totalWater, acc.totalWeight),
     sugars |-> recipePct(acc.totalSugars, acc.totalWeight),
     fat |-> recipePct(acc.totalFat, acc.totalWeight),
     msnf |-> recipePct(acc.totalMsnf, acc.totalWeight),
     other_solids |-> recipePct(acc.totalOtherSolids, acc.totalWeight),
     ts_additive |-> recipePct(ts.tsAdditive, acc.totalWeight),
     ts_mass_balance |-> recipePct(ts.tsMassBalance, acc.totalWeight),
     sp |-> acc.totalSp, pac |-> acc.totalPac,
     total_weight |-> acc.totalWeight, cost_per_batch |-> acc.totalCost,
     sp_contributions |-> acc.spContributions,
     pac_contributions |-> acc.pacContributions,
     ts_difference |-> ts.tsDifference, ts_warning |-> ts.tsWarning,
     messages |-> IF ts.tsWarning THEN Append(acc.messages, <<"TS methods differ">>)
                  ELSE acc.messages]

recipeAfterEvaporation(acc) == recipeResult(acc, totalSolids(acc))

calculateRecipeMetrics(rcp, evapPct) ==
    recipeAfterEvaporation(applyEvaporation(recipeTotals(rcp), evapPct))

(***************************************************************************)
(* convertLegacyRecipeToRows (ingredient conversion utility, lines 11-47)  *)
(***************************************************************************)
\* Lines 21-28: the first catalog entry whose name contains the given name, or whose
\* name the given name contains, or whose id is the given name with '_' for spaces.
fuzzyMatch(name) ==
    LET nameLower == toLowerCase(name)
        idx == {i \in 1..Len(getSeedIngredients) :
                   \/ includes(toLowerCase(getSeedIngredients[i].name), nameLower)
                   \/ includes(nameLower, toLowerCase(getSeedIngredients[i].name))
                   \/ toLowerCase(getSeedIngredients[i].id) = replaceWhitespace(nameLower)}
    IN  IF idx = {} THEN Null ELSE <<getSeedIngredients[First(idx)]>>

\* Lines 31-43: the default ingredient with milk-like properties.
defaultIngredient(name) ==
    [id |-> replaceWhitespace(toLowerCase(name)), name |-> name, category |-> "other",
     water_pct |-> Q(88), fat_pct |-> Q(3), msnf_pct |-> Undefined,
     other_solids_pct |-> Q(0), sugars_pct |-> Q(5),
     sp_coeff |-> Dec(5, 10), pac_coeff |-> Q(50), cost_per_kg |-> Undefined,
     sugar_split |-> NoSplit]

\* Lines 18-43: exact match, then fuzzy match, then the default ingredient.
resolveLegacyName(name) ==
    IF getIngredientByName(name) # Null THEN getIngredientByName(name)[1]
    ELSE IF fuzzyMatch(name) # Null THEN fuzzyMatch(name)[1]
    ELSE defaultIngredient(name)

\* Lines 16-46: Object.entries(recipe).map(([name, grams]) => ({ ing, grams: grams || 0 }))
convertLegacyRecipeToRows(rcp) ==
    [i \in 1..Len(rcp) |->
        [ing |-> resolveLegacyName(rcp[i].name), grams |-> OrElse(rcp[i].amount, Q(0))]]

(***************************************************************************)
(* matchIngredientName (ingredient conversion utility, lines 52-76)        *)
(***************************************************************************)
\* Lines 53-70: the alias table, lower-cased search name -> catalog name.
aliases ==
    [k \in {"sugar", "table sugar", "white sugar", "dextrose monohydrate", "glucose",
            "corn syrup", "milk", "whole milk", "cream", "heavy cream", "whipping cream",
            "skim milk powder", "nonfat dry milk", "stabilizer", "egg yolk", "vanilla"} |->
        CASE k \in {"sugar", "table sugar", "white sugar"} -> "Sucrose"
          [] k = "dextrose monohydrate" -> "Dextrose"
          [] k \in {"glucose", "corn syrup"} -> "Glucose Syrup DE60"
          [] k \in {"milk", "whole milk"} -> "Milk 3% fat"
          [] k \in {"cream", "whipping cream"} -> "Cream 25% fat"
          [] k = "heavy cream" -> "Heavy Cream"
          [] k \in {"skim milk powder", "nonfat dry milk"} -> "Skim Milk Powder"
          [] k = "stabilizer" -> "Stabilizer Blend"
          [] k = "egg yolk" -> "Egg Yolks"
          [] k = "vanilla" -> "Vanilla Extract"]

\* Lines 72-75: aliases[searchLower] || searchName, then the exact lookup.
matchIngredientName(searchName) ==
    getIngredientByName(IF toLowerCase(searchName) \in DOMAIN aliases
                        THEN aliases[toLowerCase(searchName)] ELSE searchName)

(***************************************************************************)
(* classifyRecipe and calculateDistance (calc.ts 288-309)                  *)
(***************************************************************************)
\* Object.keys(distances): the literal's keys in insertion order (lines 292-297).
ArchetypeKeys == <<"white_base", "finished_gelato", "fruit_gelato", "sorbet">>

\* Lines 293-296: the target vector passed for each archetype.
centroid(a) ==
    CASE a = "white_base" -> <<Dec(345, 10), Dec(175, 10), Q(5), Dec(95, 10), Q(17), Q(25)>>
      [] a = "finished_gelato" -> <<Dec(415, 10), Q(20), Dec(115, 10), Dec(95, 10), Q(17), Q(25)>>
      [] a = "fruit_gelato" -> <<Q(37), Q(23), Dec(65, 10), Q(5), Q(22), Q(27)>>
      [] a = "sorbet" -> <<Q(37), Dec(285, 10), Q(0), Q(0), Q(24), Dec(305, 10)>>

\* Line 306.
weights == <<Q(1), Q(1), Q(1), Q(1), Dec(5, 10), Dec(5, 10)>>

\* Lines 305-309: values.reduce((sum, value, i) => sum + weights[i] * (value - target[i])^2, 0)
calculateDistance(ts, sugars, fat, msnf, sp, pac, target) ==
    LET values == <<ts, sugars, fat, msnf, sp, pac>>
    IN  SumSeq([i \in 1..6 |->
            Mul(weights[i], Mul(Sub(values[i], target[i]), Sub(values[i], target[i])))])

\* Lines 292-297.
distances(m) ==
    [a \in {ArchetypeKeys[i] : i \in 1..Len(ArchetypeKeys)} |->
        calculateDistance(m.ts_additive, m.sugars, m.fat, m.msnf, m.sp, m.pac, centroid(a))]

\* Variant: the comparison of the callback reversed.
closer_farther(dist, a, b) == IF Gt(dist[a], dist[b]) THEN a ELSE b

\* Variant: the earlier key kept when the two distances are equal.
closer_firstOnTie(dist, a, b) == IF Le(dist[a], dist[b]) THEN a ELSE b

\* Lines 300-302: the callback of reduce, (a, b) => distances[a] < distances[b] ? a : b
closer(dist, a, b) == IF Lt(dist[a], dist[b]) THEN a ELSE b

\* Lines 300-302: Object.keys(distances).reduce(callback), no initial value.
RECURSIVE reduceKeys(_, _)
reduceKeys(dist, keys) ==
    IF Len(keys) = 1 THEN keys[1]
    ELSE closer(dist, reduceKeys(dist, SubSeq(keys, 1, Len(keys) - 1)), keys[Len(keys)])

\* Variant: no archetype for metrics whose sp is not a finite number.
classifyRecipe_finiteOnly(m) ==
    IF IsFinite(m.sp) THEN reduceKeys(distances(m), ArchetypeKeys) ELSE "unclassified"

classifyRecipe(m) == reduceKeys(distances(m), ArchetypeKeys)

(***************************************************************************)
(* Inputs                                                                  *)
(***************************************************************************)
MaxRows == 2
MaxCalls == 2

catalog(id) == getIngredientById(id)[1]

\* IngredientData records that are not catalog entries.  calcMetrics takes any
\* IngredientData: plain water, a fruit with the sugar split the test quotes for
\* Alphonso mango (sanity.spec.ts 108: glucose 2, fructose 4.5, sucrose 8.3), and a
\* sugar that carries no coefficients and matches no entry of the sugar table.
water == Ing("water", "Water", "other", Q(100), Q(0), U, U, U, U, U, U)
mango_alphonso ==
    [Ing("mango_alphonso", "Alphonso Mango Pulp", "fruit", Q(83), Dec(4, 10), U,
         Dec(18, 10), Dec(148, 10), U, U, U)
     EXCEPT !.sugar_split =
         <<[glucose |-> Q(2), fructose |-> Dec(45, 10), sucrose |-> Dec(83, 10)]>>]
trehalose == Ing("trehalose", "Trehalose", "sugar", Q(0), Q(0), U, U, Q(100), U, U, U)

InputIngredients ==
    <<catalog("sucrose"), catalog("dextrose"), catalog("milk_3"), catalog("cream_25"),
      water, mango_alphonso, trehalose>>

\* Line masses of the generic recipes: the masses of the substitution test
\* (sanity.spec.ts 152-161) and zero.
InputGrams == <<Q(0), Q(150), Q(850)>>

RowOption(k) ==
    [ing |-> InputIngredients[((k - 1) \div Len(InputGrams)) + 1],
     grams |-> InputGrams[((k - 1) % Len(InputGrams)) + 1]]

NumRowOptions == Len(InputIngredients) * Len(InputGrams)

\* Every recipe of at most n lines over the row options lo..NumRowOptions, its
\* lines listed in the order of the options.
RECURSIVE RecipesFrom(_, _)
RecipesFrom(n, lo) ==
    IF n = 0 THEN {<<>>}
    ELSE {<<>>} \cup
         UNION {{<<RowOption(k)>> \o r : r \in RecipesFrom(n - 1, k)} : k \in lo..NumRowOptions}

GenericRecipes == RecipesFrom(MaxRows, 1)

Row(id, g) == [ing |-> catalog(id), grams |-> Q(g)]

\* sanity.spec.ts 16-22
ScenarioA ==
    <<Row("milk_3", 580), Row("cream_25", 200), Row("sucrose", 170), Row("smp", 45),
      Row("stabilizer", 5)>>
\* sanity.spec.ts 152-161
sucroseRecipe == <<Row("milk_3", 850), Row("sucrose", 150)>>
dextroseRecipe == <<Row("milk_3", 850), Row("dextrose", 150)>>

RowsInputs == GenericRecipes \cup {ScenarioA, sucroseRecipe, dextroseRecipe}

EvaporationInputs == {Q(-10), Q(0), Q(50), Q(100), Q(150)}

OptsInputs == {[evaporation_pct |-> e] : e \in EvaporationInputs \cup {Undefined}}

\* Name-keyed recipes: catalog names (one in another case), and a name the catalog
\* does not hold.
RecipeNames == <<"SUCROSE", "Cream 25% fat", "Milk 3% fat", "Mango Pulp">>

\* Recipes in the legacy format with names that are not catalog names: a part of
\* two catalog names, a catalog name with a prefix, a catalog id with a space.
LegacyRecipes ==
    {<<[name |-> "Cream", amount |-> Q(150)], [name |-> "Mango Pulp", amount |-> Q(150)]>>,
     <<[name |-> "fine sucrose", amount |-> Q(150)], [name |-> "Milk 3% fat", amount |-> Q(850)]>>,
     <<[name |-> "cocoa dp", amount |-> Q(150)], [name |-> "Whole Milk", amount |-> Q(850)]>>,
     <<[name |-> "sugar", amount |-> Q(150)], [name |-> "milk", amount |-> Q(850)]>>}

RecipeInputs ==
    {[i \in 1..Len(RecipeNames) |-> [name |-> RecipeNames[i], amount |-> InputGrams[f[i]]]] :
        f \in [1..Len(RecipeNames) -> 1..Len(InputGrams)]}
    \cup LegacyRecipes

\* Classifier inputs: per field, the centroids' coordinates and the midpoint of
\* white_base and finished_gelato; sp may also be NaN.
ClassifierInputs ==
    [ts_additive : {Dec(345, 10), Q(37), Q(38), Dec(415, 10)},
     sugars : {Dec(175, 10), Dec(1875, 100), Q(20), Q(23), Dec(285, 10)},
     fat : {Q(0), Q(5), Dec(65, 10), Dec(825, 100), Dec(115, 10)},
     msnf : {Q(0), Q(5), Dec(95, 10)},
     sp : {Q(17), Q(22), Q(24), NaN},
     pac : {Q(25), Q(27), Dec(305, 10)}]

NoClassifierInput ==
    [ts_additive |-> Q(0), sugars |-> Q(0), fat |-> Q(0), msnf |-> Q(0), sp |-> Q(0),
     pac |-> Q(0)]

(***************************************************************************)
(* Calls of the metrics functions                                          *)
(***************************************************************************)
NoResult == <<>>
NoInput == <<>>

\* The components no call is made on.
ValIdle == valInput = NoInput /\ valOutput = NoResult
AdvIdle == advInput = NoInput /\ advOutput = NoResult
OptIdle == optInput = NoInput /\ optState = NoResult
EngIdle == engine = NoInput

InitCalc ==
    /\ call \in {"calcMetrics", "calculateRecipeMetrics"}
    /\ IF call = "calcMetrics"
       THEN /\ rows \in RowsInputs
            /\ opts \in OptsInputs
            /\ recipe = <<>>
            /\ evaporationPct = Q(0)
       ELSE /\ rows = <<>>
            /\ opts = [evaporation_pct |-> Undefined]
            /\ recipe \in RecipeInputs
            /\ evaporationPct \in EvaporationInputs
    /\ metrics = NoResult
    /\ metricsRows = NoResult
    /\ recipeMetrics = NoResult
    /\ clsInput = NoClassifierInput
    /\ clsOutput = <<>>
    /\ legacyRows = NoResult
    /\ ValIdle
    /\ AdvIdle
    /\ OptIdle
    /\ EngIdle

CalcMetrics ==
    /\ call = "calcMetrics"
    /\ metrics = NoResult
    /\ metrics' = <<calcMetrics(rows, opts)>>
    /\ UNCHANGED <<call, rows, opts, recipe, evaporationPct, metricsRows, recipeMetrics,
                   clsInput, clsOutput, legacyRows, valVars, advVars, optVars, engine>>

CalcMetricsRows ==
    /\ call = "calcMetrics"
    /\ metricsRows = NoResult
    /\ metricsRows' = <<calculateRecipeMetrics_rows(rows, opts)>>
    /\ UNCHANGED <<call, rows, opts, recipe, evaporationPct, metrics, recipeMetrics,
                   clsInput, clsOutput, legacyRows, valVars, advVars, optVars, engine>>

CalculateRecipeMetrics ==
    /\ call = "calculateRecipeMetrics"
    /\ recipeMetrics = NoResult
    /\ recipeMetrics' = <<calculateRecipeMetrics(recipe, evaporationPct)>>
    /\ UNCHANGED <<call, rows, opts, recipe, evaporationPct, metrics, metricsRows,
                   clsInput, clsOutput, legacyRows, valVars, advVars, optVars, engine>>

ConvertLegacyRecipeToRows ==
    /\ call = "calculateRecipeMetrics"
    /\ legacyRows = NoResult
    /\ legacyRows' = <<convertLegacyRecipeToRows(recipe)>>
    /\ UNCHANGED <<call, rows, opts, recipe, evaporationPct, metrics, metricsRows,
                   recipeMetrics, clsInput, clsOutput, valVars, advVars, optVars, engine>>

NextCalc ==
    CalcMetrics \/ CalcMetricsRows \/ CalculateRecipeMetrics \/ ConvertLegacyRecipeToRows

SpecCalc == InitCalc /\ [][NextCalc]_vars

(***************************************************************************)
(* Calls of the classifier                                                 *)
(***************************************************************************)
InitClassify ==
    /\ call = "classifyRecipe"
    /\ rows = <<>>
    /\ opts = [evaporation_pct |-> Undefined]
    /\ recipe = <<>>
    /\ evaporationPct = Q(0)
    /\ metrics = NoResult
    /\ metricsRows = NoResult
    /\ recipeMetrics = NoResult
    /\ clsInput \in ClassifierInputs
    /\ clsOutput = <<>>
    /\ legacyRows = NoResult
    /\ ValIdle
    /\ AdvIdle
    /\ OptIdle
    /\ EngIdle

ClassifyRecipe ==
    /\ call = "classifyRecipe"
    /\ Len(clsOutput) < MaxCalls
    /\ clsOutput' = Append(clsOutput, classifyRecipe(clsInput))
    /\ UNCHANGED <<call, rows, opts, recipe, evaporationPct, metrics, metricsRows,
                   recipeMetrics, clsInput, legacyRows, valVars, advVars, optVars, engine>>

NextClassify == ClassifyRecipe

SpecClassify == InitClassify /\ [][NextClassify]_vars

(***************************************************************************)
(* Band checks: ScienceChecklist row (ScienceChecklist.tsx 16-32),         *)
(* checkTargets (FlavourEngine.tsx 102-112) and generateValidationMessages *)
(* (calc.ts 314-352)                                                       *)
(***************************************************************************)
\* Math.ceil of a finite number.
MathCeil(x) == IF IsFinite(x) THEN Q(-((-x.n) \div x.d)) ELSE NaN

\* Number.prototype.toFixed(1): the number rounded to one decimal ("NaN" for NaN).
toFixed1(x) ==
    IF ~IsFinite(x) THEN NaN
    ELSE IF x.n < 0 THEN Neg(Norm((20 * (-x.n) + x.d) \div (2 * x.d), 10))
    ELSE Norm((20 * x.n + x.d) \div (2 * x.d), 10)

NoBand == <<>>

\* Variant: the band taken as an open interval.
row_openBand(val, r) ==
    LET pass == Gt(val, r[1]) /\ Lt(val, r[2])
        near == /\ ~pass
                /\ Le(MathAbs(Sub(val, IF Lt(val, r[1]) THEN r[1] ELSE r[2])),
                      Mul(Dec(5, 100), Sub(r[2], r[1])))
    IN  IF pass THEN "pass" ELSE IF near THEN "near" ELSE "fail"

\* ScienceChecklist.tsx 16-19: the class of a row, emerald (pass), amber (near) or
\* rose (fail); r is the band <<min, max>>.
row(val, r) ==
    LET pass == Ge(val, r[1]) /\ Le(val, r[2])
        near == /\ ~pass
                /\ Le(MathAbs(Sub(val, IF Lt(val, r[1]) THEN r[1] ELSE r[2])),
                      Mul(Dec(5, 100), Sub(r[2], r[1])))
    IN  IF pass THEN "pass" ELSE IF near THEN "near" ELSE "fail"

\* ScienceChecklist.tsx 31-32: b.x && typeof pct === 'number' && row(...)
optionalRow(val, r) ==
    IF r = NoBand \/ val = Undefined THEN "none" ELSE row(val, r)

\* ScienceChecklist.tsx 25-32: the rows rendered.
ScienceChecklist(m, b, stabilizerPct, fruitPct) ==
    [ts |-> row(m.ts_add_pct, b.ts), fat |-> row(m.fat_pct, b.fat),
     sugar |-> row(m.sugars_pct, b.sugar), msnf |-> row(m.msnf_pct, b.msnf),
     sp |-> row(m.sp, b.sp), pac |-> row(m.pac, b.pac),
     stabilizer |-> optionalRow(stabilizerPct, b.stabilizer),
     fruitPct |-> optionalRow(fruitPct, b.fruitPct)]

\* FlavourEngine.tsx 50-56.
engineTargets ==
    [totalSolids |-> [min |-> Q(36), max |-> Q(42)],
     fat |-> [min |-> Q(14), max |-> Q(18)],
     msnf |-> [min |-> Q(9), max |-> Q(12)],
     pac |-> [min |-> Dec(32, 10), max |-> Dec(45, 10)],
     sweetness |-> [min |-> Q(14), max |-> Q(18)]]

\* FlavourEngine.tsx 104-108: one entry of results.
checkTarget(value, target) == Ge(value, target.min) /\ Le(value, target.max)

\* FlavourEngine.tsx 102-112.
checkTargets(m, t) ==
    [totalSolids |-> checkTarget(m.totalSolids, t.totalSolids),
     fat |-> checkTarget(m.fat, t.fat),
     msnf |-> checkTarget(m.msnf, t.msnf),
     pac |-> checkTarget(m.pac, t.pac),
     sweetness |-> checkTarget(m.sweetness, t.sweetness)]

\* calc.ts 322-331: the PAC messages; t is targets.pac.
pacMessages(m, t) ==
    IF Lt(m.pac, t[1])
    THEN <<[field |-> "pac", level |-> "low", shown |-> toFixed1(m.pac),
            min |-> t[1], max |-> t[2],
            dextrose |-> <<MathCeil(Mul(Sub(t[1], m.pac), Dec(1, 10))),
                           MathCeil(Mul(Sub(t[1], m.pac), Dec(2, 10)))>>,
            sucrose |-> MathCeil(Mul(Sub(t[1], m.pac), Dec(15, 100)))]>>
    ELSE IF Gt(m.pac, t[2])
    THEN <<[field |-> "pac", level |-> "high", shown |-> toFixed1(m.pac),
            min |-> t[1], max |-> t[2],
            dextrose |-> <<MathCeil(Mul(Sub(m.pac, t[2]), Dec(1, 10))),
                           MathCeil(Mul(Sub(m.pac, t[2]), Dec(2, 10)))>>,
            sucrose |-> MathCeil(Mul(Sub(m.pac, t[2]), Dec(15, 100)))]>>
    ELSE <<>>

\* calc.ts 334-341: the total solids messages; t is targets.total_solids.
tsMessages(m, t) ==
    IF Gt(m.ts_additive, t[2])
    THEN <<[field |-> "total_solids", level |-> "high", shown |-> toFixed1(m.ts_additive)]>>
    ELSE IF Lt(m.ts_additive, t[1])
    THEN <<[field |-> "total_solids", level |-> "low", shown |-> toFixed1(m.ts_additive)]>>
    ELSE <<>>

\* calc.ts 344-349: the sugar message; t is targets.sugar.
sugarMessages(m, t, productType) ==
    IF Gt(m.sugars, t[2]) /\ productType = "white_base"
    THEN <<[field |-> "sugar", level |-> "high", shown |-> toFixed1(m.sugars),
            min |-> t[1], max |-> t[2]]>>
    ELSE <<>>

\* calc.ts 314-352; targets is a function from the keys present to <<min, max>>.
generateValidationMessages(m, targets, productType) ==
    (IF "pac" \in DOMAIN targets THEN pacMessages(m, targets["pac"]) ELSE <<>>)
    \o (IF "total_solids" \in DOMAIN targets
        THEN tsMessages(m, targets["total_solids"]) ELSE <<>>)
    \o (IF "sugar" \in DOMAIN targets
        THEN sugarMessages(m, targets["sugar"], productType) ELSE <<>>)

\* Bands of the target band configuration (read through getActiveParameters, which
\* the checklist only calls): one product type with and one without the optional
\* stabilizer and fruit bands.
ChecklistBands ==
    {[ts |-> <<Q(36), Q(45)>>, fat |-> <<Q(6), Q(9)>>, sugar |-> <<Q(16), Q(22)>>,
      msnf |-> <<Q(7), Q(12)>>, sp |-> <<Q(12), Q(22)>>, pac |-> <<Q(22), Q(28)>>,
      stabilizer |-> NoBand, fruitPct |-> NoBand],
     [ts |-> <<Q(32), Q(42)>>, fat |-> <<Q(3), Q(10)>>, sugar |-> <<Q(22), Q(24)>>,
      msnf |-> <<Q(3), Q(7)>>, sp |-> <<Q(18), Q(26)>>, pac |-> <<Q(25), Q(29)>>,
      stabilizer |-> <<Dec(2, 10), Dec(5, 10)>>, fruitPct |-> <<Q(5), Q(45)>>]}

\* Metrics on, just outside and far outside the edges of those bands.
ChecklistMetrics ==
    [ts_add_pct : {Q(35), Dec(356, 10), Q(36), Q(45), Dec(454, 10), Q(46)},
     fat_pct : {Q(3), Q(6), Q(11)},
     sugars_pct : {Q(22), Dec(245, 10)},
     msnf_pct : {Q(7)},
     sp : {Q(18)},
     pac : {Q(28), Dec(285, 10), NaN}]

ChecklistInputs ==
    [kind : {"ScienceChecklist"}, metrics : ChecklistMetrics, bands : ChecklistBands,
     stabilizerPct : {Undefined, Dec(5, 10)}, fruitPct : {Undefined, Q(50)}]

\* The metrics FlavourEngine passes to checkTargets, around its targets.
EngineMetrics ==
    [totalSolids : {Q(35), Q(36), Q(42), Q(43)},
     fat : {Q(14), Q(16), Q(18), Q(19)},
     msnf : {Q(8), Q(9), Q(12)},
     pac : {Dec(32, 10), Dec(45, 10), Dec(46, 10), NaN},
     sweetness : {Q(13), Q(14), Q(18)}]

CheckTargetsInputs == [kind : {"checkTargets"}, metrics : EngineMetrics]

\* RecipeMetrics fields generateValidationMessages reads (and fat, which it does not).
ValidationMetrics ==
    [pac : {Q(21), Q(22), Q(25), Q(28), Dec(295, 10)},
     ts_additive : {Q(35), Q(36), Q(40), Q(45), Q(46)},
     sugars : {Q(15), Q(16), Q(22), Q(23)},
     fat : {Q(3), Q(6)}]

ValidationBands ==
    [pac |-> <<Q(22), Q(28)>>, total_solids |-> <<Q(36), Q(45)>>,
     sugar |-> <<Q(16), Q(22)>>, fat |-> <<Q(4), Q(10)>>]

\* targets: any subset of the fields carries its band.
ValidationTargets ==
    {[k \in keys |-> ValidationBands[k]] : keys \in SUBSET DOMAIN ValidationBands}

ValidationInputs ==
    [kind : {"generateValidationMessages"}, metrics : ValidationMetrics,
     targets : ValidationTargets, productType : {"white_base", "finished_gelato"}]

(***************************************************************************)
(* Calls of the band checks                                                *)
(***************************************************************************)
CalcIdle ==
    /\ rows = <<>>
    /\ opts = [evaporation_pct |-> Undefined]
    /\ recipe = <<>>
    /\ evaporationPct = Q(0)
    /\ metrics = NoResult
    /\ metricsRows = NoResult
    /\ recipeMetrics = NoResult
    /\ legacyRows = NoResult

ClsIdle == clsInput = NoClassifierInput /\ clsOutput = <<>>

calcVars == <<rows, opts, recipe, evaporationPct, metrics, metricsRows, recipeMetrics,
              legacyRows>>
clsVars == <<clsInput, clsOutput>>

InitValidate ==
    /\ call \in {"ScienceChecklist", "checkTargets", "generateValidationMessages"}
    /\ valInput \in ChecklistInputs \cup CheckTargetsInputs \cup ValidationInputs
    /\ valInput.kind = call
    /\ valOutput = NoResult
    /\ CalcIdle
    /\ ClsIdle
    /\ AdvIdle
    /\ OptIdle
    /\ EngIdle

RenderScienceChecklist ==
    /\ call = "ScienceChecklist"
    /\ valOutput = NoResult
    /\ valOutput' = <<ScienceChecklist(valInput.metrics, valInput.bands,
                                       valInput.stabilizerPct, valInput.fruitPct)>>
    /\ UNCHANGED <<call, valInput, calcVars, clsVars, advVars, optVars, engine>>

CheckTargets ==
    /\ call = "checkTargets"
    /\ valOutput = NoResult
    /\ valOutput' = <<checkTargets(valInput.metrics, engineTargets)>>
    /\ UNCHANGED <<call, valInput, calcVars, clsVars, advVars, optVars, engine>>

GenerateValidationMessages ==
    /\ call = "generateValidationMessages"
    /\ valOutput = NoResult
    /\ valOutput' = <<generateValidationMessages(valInput.metrics, valInput.targets,
                                                 valInput.productType)>>
    /\ UNCHANGED <<call, valInput, calcVars, clsVars, advVars, optVars, engine>>

NextValidate == RenderScienceChecklist \/ CheckTargets \/ GenerateValidationMessages

SpecValidate == InitValidate /\ [][NextValidate]_vars

(***************************************************************************)
(* PasteAdvisorService.advise (pasteAdvisorService.ts 4-96)                *)
(***************************************************************************)
\* An optional object (paste.lab, prefs) or flag is <<>> when absent, <<value>>
\* when given.
NoLab == <<>>
NoPrefs == <<>>
NoFlag == <<>>

\* Lines 5-6: paste.lab?.pH and paste.lab?.brix_deg
labPH(paste) == IF paste.lab = NoLab THEN Undefined ELSE paste.lab[1].pH
labBrix(paste) == IF paste.lab = NoLab THEN Undefined ELSE paste.lab[1].brix_deg

\* Line 7.
isDairy(paste) ==
    paste.category = "dairy" \/ Gt(Nullish(paste.msnf_pct, Q(0)), Q(1))

\* Line 8: prefs?.particulate_mm ?? 2
particulateOf(prefs) ==
    IF prefs = NoPrefs THEN Q(2) ELSE Nullish(prefs[1].particulate_mm, Q(2))

\* Line 43: prefs?.ambientPreferred as a condition.
ambientPreferred(prefs) ==
    /\ prefs # NoPrefs
    /\ prefs[1].ambientPreferred # NoFlag
    /\ prefs[1].ambientPreferred[1]

\* Variant: a missing Brix taken as the 60 the targets default to.
hotFillQualifies_brixDefault(paste, prefs) ==
    /\ ~isDairy(paste)
    /\ labPH(paste) # Undefined
    /\ Le(labPH(paste), Dec(46, 10))
    /\ Ge(Nullish(labBrix(paste), Q(60)), Q(55))
    /\ Le(particulateOf(prefs), Q(5))

\* Variant: hot fill offered for dairy pastes too.
hotFillQualifies_dairyAllowed(paste, prefs) ==
    /\ labPH(paste) # Undefined
    /\ Le(labPH(paste), Dec(46, 10))
    /\ Ge(Nullish(labBrix(paste), Q(0)), Q(55))
    /\ Le(particulateOf(prefs), Q(5))

\* Line 16.
hotFillQualifies(paste, prefs) ==
    /\ ~isDairy(paste)
    /\ labPH(paste) # Undefined
    /\ Le(labPH(paste), Dec(46, 10))
    /\ Ge(Nullish(labBrix(paste), Q(0)), Q(55))
    /\ Le(particulateOf(prefs), Q(5))

\* Variant: retort offered whatever the logistics preference.
retortQualifies_anyLogistics(paste, prefs) ==
    isDairy(paste) \/ (labPH(paste) # Undefined /\ Gt(labPH(paste), Dec(46, 10)))

\* Line 43.
retortQualifies(paste, prefs) ==
    /\ isDairy(paste) \/ (labPH(paste) # Undefined /\ Gt(labPH(paste), Dec(46, 10)))
    /\ ambientPreferred(prefs)

\* Lines 17-39.
hotFillAdvice(paste, prefs) ==
    [method |-> "hot_fill", confidence |-> Dec(7, 10),
     why |-> <<"High-acid & high Bx", "No dairy components",
               IF Gt(particulateOf(prefs), Q(5)) THEN "Particulates borderline"
               ELSE "Particulates ok">>,
     targets |-> [brix_deg |-> MathMax(Q(60), Nullish(labBrix(paste), Q(60))),
                  pH |-> MathMin(Dec(38, 10), Nullish(labPH(paste), Dec(38, 10))),
                  aw_max |-> Dec(85, 100), particle_mm_max |-> Q(5)],
     storage |-> "ambient",
     impact_on_gelato |-> [aroma_retention |-> "medium", color_browning |-> "medium"]]

\* Lines 44-60.
retortAdvice(paste, prefs) ==
    [method |-> "retort", confidence |-> Dec(7, 10),
     why |-> <<IF isDairy(paste) THEN "Dairy present" ELSE "Low-acid (>4.6)",
               "Ambient logistics requested">>,
     targets |-> [brix_deg |-> labBrix(paste), pH |-> labPH(paste),
                  aw_max |-> Dec(97, 100), particle_mm_max |-> Q(10)],
     storage |-> "ambient",
     impact_on_gelato |-> [aroma_retention |-> "low", color_browning |-> "high"]]

\* Lines 64-77.
frozenAdvice(paste) ==
    [method |-> "frozen", confidence |-> Dec(8, 10),
     why |-> <<"Minimal thermal impact", "Requires frozen logistics">>,
     targets |-> [brix_deg |-> labBrix(paste), pH |-> labPH(paste),
                  aw_max |-> Undefined, particle_mm_max |-> Undefined],
     storage |-> "frozen",
     impact_on_gelato |-> [aroma_retention |-> "high", color_browning |-> "low"]]

\* Lines 80-93.
freezeDryAdvice(paste) ==
    [method |-> "freeze_dry", confidence |-> Dec(8, 10),
     why |-> <<"Zero added water to base", "Great for delicate aromatics">>,
     targets |-> [brix_deg |-> labBrix(paste), pH |-> labPH(paste),
                  aw_max |-> Dec(3, 10), particle_mm_max |-> Undefined],
     storage |-> "ambient",
     impact_on_gelato |-> [aroma_retention |-> "high", color_browning |-> "low"]]

\* Lines 13-93: adv in the order of the pushes.
candidates(paste, prefs) ==
    (IF hotFillQualifies(paste, prefs) THEN <<hotFillAdvice(paste, prefs)>> ELSE <<>>)
    \o (IF retortQualifies(paste, prefs) THEN <<retortAdvice(paste, prefs)>> ELSE <<>>)
    \o <<frozenAdvice(paste), freezeDryAdvice(paste)>>

\* The place of x in a list sorted by (a, b) => b.confidence - a.confidence: behind
\* every entry that does not sort after it (Array.prototype.sort is stable).
RECURSIVE insertByConfidence(_, _)
insertByConfidence(sorted, x) ==
    IF sorted = <<>> THEN <<x>>
    ELSE IF Gt(Sub(x.confidence, sorted[Len(sorted)].confidence), Q(0))
         THEN Append(insertByConfidence(SubSeq(sorted, 1, Len(sorted) - 1), x),
                     sorted[Len(sorted)])
         ELSE Append(sorted, x)

\* Variant: the list returned in the order of the pushes.
sortByConfidence_unsorted(adv) == adv

\* Line 95: adv.sort((a, b) => b.confidence - a.confidence)
RECURSIVE sortByConfidence(_)
sortByConfidence(adv) ==
    IF adv = <<>> THEN <<>>
    ELSE insertByConfidence(sortByConfidence(SubSeq(adv, 1, Len(adv) - 1)), adv[Len(adv)])

\* Lines 4-96.
advise(paste, prefs) == sortByConfidence(candidates(paste, prefs))

\* Paste formulas: the fields advise reads.
PasteInputs ==
    [category : {"dairy", "fruit", "mixed"},
     msnf_pct : {Undefined, Q(1), Dec(15, 10)},
     lab : {NoLab} \cup
           {<<l>> : l \in [pH : {Undefined, Dec(35, 10), Dec(46, 10), Dec(47, 10)},
                           brix_deg : {Undefined, Q(54), Q(55), Q(65)}]}]

PrefsInputs ==
    {NoPrefs} \cup
    {<<q>> : q \in [ambientPreferred : {NoFlag, <<TRUE>>, <<FALSE>>},
                    particulate_mm : {Undefined, Q(5), Q(6)}]}

(***************************************************************************)
(* Calls of the advisor                                                    *)
(***************************************************************************)
InitAdvise ==
    /\ call = "advise"
    /\ advInput \in [paste : PasteInputs, prefs : PrefsInputs]
    /\ advOutput = NoResult
    /\ CalcIdle
    /\ ClsIdle
    /\ ValIdle
    /\ OptIdle
    /\ EngIdle

Advise ==
    /\ call = "advise"
    /\ advOutput = NoResult
    /\ advOutput' = <<advise(advInput.paste, advInput.prefs)>>
    /\ UNCHANGED <<call, advInput, calcVars, clsVars, valVars, optVars, engine>>

NextAdvise == Advise

SpecAdvise == InitAdvise /\ [][NextAdvise]_vars

(***************************************************************************)
(* The formulation optimizer, optimize(seedLines, sparseTargets,           *)
(* maxIterations, stepScale).  Its source is not among the files under     *)
(* src/ (TargetPanel.tsx 29-32 only offers the button that starts it); the *)
(* loop is written from the design of spec.md section 4.4, on top of       *)
(* calcMetrics as modelled above.  To keep the exact arithmetic within the *)
(* integers of the model checker over several iterations, the loop reads   *)
(* each metric to one decimal and moves masses by whole grams.             *)
(***************************************************************************)
\* Math.round: the nearest integer, halves upwards.
MathRound(x) == IF IsFinite(x) THEN Q((2 * x.n + x.d) \div (2 * x.d)) ELSE NaN

\* The fields a sparse target set may name, and the metric each is compared with.
OptFields == <<"ts", "sugars", "fat", "msnf", "sp", "pac">>

optField(m, f) ==
    CASE f = "ts" -> toFixed1(m.ts_add_pct)
      [] f = "sugars" -> toFixed1(m.sugars_pct)
      [] f = "fat" -> toFixed1(m.fat_pct)
      [] f = "msnf" -> toFixed1(m.msnf_pct)
      [] f = "sp" -> toFixed1(m.sp)
      [] f = "pac" -> toFixed1(m.pac)

\* Step (2): the signed error of a field, 0 for a field without a target.
signedError(m, targets, f) ==
    IF f \in DOMAIN targets THEN Sub(targets[f], optField(m, f)) ELSE Q(0)

\* Step (5): the aggregate squared error over the targets present.
aggregateError(m, targets) ==
    SumSeq([i \in 1..Len(OptFields) |->
        Mul(signedError(m, targets, OptFields[i]), signedError(m, targets, OptFields[i]))])

\* The convergence threshold of step (5).
ConvergenceThreshold == Dec(1, 100)

\* Step (3): how strongly an ingredient's composition affects a field.
strength(ing, f) ==
    CASE f = "ts" -> Sub(Q(100), OrElse(ing.water_pct, Q(0)))
      [] f = "sugars" -> OrElse(ing.sugars_pct, Q(0))
      [] f = "fat" -> OrElse(ing.fat_pct, Q(0))
      [] f = "msnf" -> OrElse(ing.msnf_pct, Q(0))
      [] f = "sp" -> Mul(OrElse(ing.sugars_pct, Q(0)), spCoeff(ing))
      [] f = "pac" -> Mul(OrElse(ing.sugars_pct, Q(0)), pacCoeff(ing))

\* Step (3): the lines that affect a field most strongly.
strongest(lines, f) ==
    {i \in 1..Len(lines) :
        /\ Gt(strength(lines[i].ing, f), Q(0))
        /\ \A j \in 1..Len(lines) : Ge(strength(lines[i].ing, f), strength(lines[j].ing, f))}

\* Step (3): the masses of those lines moved by error * stepScale, in whole grams.
adjustField(lines, f, err, stepScale) ==
    [i \in 1..Len(lines) |->
        IF i \in strongest(lines, f)
        THEN [lines[i] EXCEPT !.grams = Add(@, MathRound(Mul(err, stepScale)))]
        ELSE lines[i]]

\* Step (3) for the first k fields, one after the other, on the errors of m.
RECURSIVE adjustFields(_, _, _, _, _)
adjustFields(lines, m, targets, stepScale, k) ==
    IF k = 0 THEN lines
    ELSE adjustField(adjustFields(lines, m, targets, stepScale, k - 1), OptFields[k],
                     signedError(m, targets, OptFields[k]), stepScale)

\* Variant: the masses left as the adjustment made them.
clampMasses_unclamped(lines) == lines

\* Step (4): every mass clamped to >= 0.
clampMasses(lines) ==
    [i \in 1..Len(lines) |-> [lines[i] EXCEPT !.grams = MathMax(Q(0), @)]]

\* Variant: the recipe of the last iteration kept in place of the best one.
keepBest_latest(st, lines, err) == [st EXCEPT !.best = lines, !.bestErr = err]

\* The best recipe observed so far and its error.
keepBest(st, lines, err) ==
    IF st.errs = <<>> \/ Lt(err, st.bestErr)
    THEN [st EXCEPT !.best = lines, !.bestErr = err]
    ELSE st

\* Variant: one iteration more than maxIterations.
mayIterate_oneMore(st, maxIterations) == ~st.converged /\ st.iter <= maxIterations

\* Step (5): the loop goes on while not converged and below the iteration cap.
mayIterate(st, maxIterations) == ~st.converged /\ st.iter < maxIterations

\* Steps (1), (2) and (5) of an iteration, m being the metrics of the current lines:
\* the call is counted, the error recorded and the best recipe kept.
evaluated(st, m, err) ==
    [keepBest(st, st.lines, err) EXCEPT
        !.iter = @ + 1, !.calls = @ + 1, !.errs = Append(@, err),
        !.visited = Append(@, st.lines),
        !.bestMetrics = IF keepBest(st, st.lines, err).best = st.lines THEN <<m>> ELSE @,
        !.converged = Lt(err, ConvergenceThreshold)]

\* Steps (3) and (4), skipped once converged.
adjusted(st, m, targets, stepScale) ==
    IF st.converged THEN st
    ELSE [st EXCEPT !.lines =
            clampMasses(adjustFields(st.lines, m, targets, stepScale, Len(OptFields)))]

\* One iteration of the loop.
iterate(st, m, targets, stepScale) ==
    adjusted(evaluated(st, m, aggregateError(m, targets)), m, targets, stepScale)

\* The loop state on entry.
optimizeEntry(seed) ==
    [pc |-> "loop", lines |-> seed, iter |-> 0, calls |-> 0, best |-> seed,
     bestErr |-> Q(0), bestMetrics |-> <<>>, errs |-> <<>>, visited |-> <<>>,
     converged |-> FALSE]

\* The value returned: the best recipe observed and its metrics.
optimizeResult(st) == [lines |-> st.best, metrics |-> st.bestMetrics]

\* Seed recipes, sparse targets (one of them out of reach of the palette, one
\* empty), iteration caps and step scales.
OptSeeds ==
    {<<Row("cream_25", 500), Row("sucrose", 150), Row("milk_3", 350)>>,
     <<Row("milk_3", 850), Row("sucrose", 150)>>,
     <<Row("sucrose", 10), Row("milk_3", 90), Row("cream_25", 0)>>}

OptTargets ==
    {<<>>,
     [f \in {"sugars"} |-> Q(20)],
     [f \in {"sugars"} |-> Q(15)],
     [f \in {"fat", "sugars"} |-> IF f = "fat" THEN Q(8) ELSE Q(18)],
     [f \in {"fat", "ts"} |-> IF f = "fat" THEN Q(30) ELSE Q(10)],
     [f \in {"sp", "msnf"} |-> IF f = "sp" THEN Q(12) ELSE Q(4)]}

OptIterations == {0, 1, 2, 3}

OptStepScales == {Q(1), Q(10), Q(100)}

OptInputs ==
    [seed : OptSeeds, targets : OptTargets, maxIterations : OptIterations,
     stepScale : OptStepScales]

NoOptions == [evaporation_pct |-> Undefined]

(***************************************************************************)
(* Calls of the optimizer                                                  *)
(***************************************************************************)
InitOptimize ==
    /\ call = "optimize"
    /\ optInput \in OptInputs
    /\ optState = optimizeEntry(optInput.seed)
    /\ CalcIdle
    /\ ClsIdle
    /\ ValIdle
    /\ AdvIdle
    /\ EngIdle

OptimizeIterate ==
    /\ call = "optimize"
    /\ optState.pc = "loop"
    /\ mayIterate(optState, optInput.maxIterations)
    /\ optState' = iterate(optState, calcMetrics(optState.lines, NoOptions),
                           optInput.targets, optInput.stepScale)
    /\ UNCHANGED <<call, optInput, calcVars, clsVars, valVars, advVars, engine>>

OptimizeReturn ==
    /\ call = "optimize"
    /\ optState.pc = "loop"
    /\ ~mayIterate(optState, optInput.maxIterations)
    /\ optState' = [optState EXCEPT !.pc = "done"]
    /\ UNCHANGED <<call, optInput, calcVars, clsVars, valVars, advVars, engine>>

NextOptimize == OptimizeIterate \/ OptimizeReturn

SpecOptimize == InitOptimize /\ [][NextOptimize]_vars

(***************************************************************************)
(* FlavourEngine component (FlavourEngine.tsx 29-189): the recipe state,   *)
(* its suggestions and Auto-Optimize.  A render computes metrics,          *)
(* targetResults and suggestions from the recipe of that render; the       *)
(* action of a suggestion is a closure over that recipe.                   *)
(***************************************************************************)
\* Lines 32-38: the fat, msnf and pac of the ingredients the recipe names.
engineIngredients ==
    [name \in {"Heavy Cream", "Whole Milk", "Sugar", "Egg Yolks", "Stabilizer"} |->
        CASE name = "Heavy Cream" -> [pac |-> Dec(28, 10), fat |-> Q(35), msnf |-> Dec(55, 10)]
          [] name = "Whole Milk" -> [pac |-> Dec(27, 10), fat |-> Dec(35, 10), msnf |-> Dec(85, 10)]
          [] name = "Sugar" -> [pac |-> Q(0), fat |-> Q(0), msnf |-> Q(0)]
          [] name = "Egg Yolks" -> [pac |-> Dec(157, 10), fat |-> Dec(319, 10), msnf |-> Dec(11, 10)]
          [] name = "Stabilizer" -> [pac |-> Q(0), fat |-> Q(0), msnf |-> Q(0)]]

\* Lines 41-47: the keys of the recipe state, in insertion order.
engineKeys == <<"Heavy Cream", "Whole Milk", "Sugar", "Egg Yolks", "Stabilizer">>

\* Line 61: Object.values(recipe).reduce((sum, amount) => sum + amount, 0)
engineTotalWeight(rcp) == SumSeq([i \in 1..Len(engineKeys) |-> rcp[engineKeys[i]]])

\* Lines 70-81: the sum of one component over the lines with amount > 0.
engineTotal(rcp, field) ==
    SumSeq([i \in 1..Len(engineKeys) |->
        IF Gt(rcp[engineKeys[i]], Q(0))
        THEN Div(Mul(engineIngredients[engineKeys[i]][field], rcp[engineKeys[i]]), Q(100))
        ELSE Q(0)])

\* (x / totalWeight) * 100; not a finite number when totalWeight is 0.
enginePct(x, totalWeight) == Mul(Div(x, totalWeight), Q(100))

\* Lines 60-98, with the masses the percentages are made of.
engineRecipeMetrics(rcp) ==
    [totalSolids |-> Add(enginePct(engineTotal(rcp, "fat"), engineTotalWeight(rcp)),
                         enginePct(engineTotal(rcp, "msnf"), engineTotalWeight(rcp))),
     fat |-> enginePct(engineTotal(rcp, "fat"), engineTotalWeight(rcp)),
     msnf |-> enginePct(engineTotal(rcp, "msnf"), engineTotalWeight(rcp)),
     pac |-> enginePct(engineTotal(rcp, "pac"), engineTotalWeight(rcp)),
     sweetness |-> enginePct(rcp["Sugar"], engineTotalWeight(rcp)),
     totalFat |-> engineTotal(rcp, "fat"), totalMSNF |-> engineTotal(rcp, "msnf"),
     totalSugar |-> rcp["Sugar"], totalWeight |-> engineTotalWeight(rcp)]

\* value < bound for value = (x / totalWeight) * 100: a negative x over a zero
\* totalWeight is -Infinity, which is below every bound; NaN and +Infinity are not.
engineBelow(value, x, totalWeight, bound) ==
    Lt(value, bound) \/ (IsFinite(totalWeight) /\ totalWeight.n = 0 /\ Lt(x, Q(0)))

\* Line 115: Object.values(targetResults).every(result => result)
allTargetsMet(rcp) ==
    \A f \in DOMAIN checkTargets(engineRecipeMetrics(rcp), engineTargets) :
        checkTargets(engineRecipeMetrics(rcp), engineTargets)[f]

\* Number(String(x)): a finite number comes back as it was, NaN as NaN.
numberOfString(x) == IF IsFinite(x) THEN x ELSE NaN

\* One updateRecipe call of a suggestion's action, its value computed at render time.
engineWrite(ingredient, value) == [ingredient |-> ingredient, value |-> numberOfString(value)]

\* Lines 120-135: the fat suggestion of a render with recipe rcp and metrics m.
fatSuggestion(rcp, m) ==
    IF checkTarget(m.fat, engineTargets.fat) THEN <<>>
    ELSE IF engineBelow(m.fat, m.totalFat, m.totalWeight, engineTargets.fat.min)
    THEN <<<<engineWrite("Heavy Cream", Add(rcp["Heavy Cream"], Q(75)))>>>>
    ELSE <<<<engineWrite("Heavy Cream", Sub(rcp["Heavy Cream"], Q(50))),
             engineWrite("Whole Milk", Add(rcp["Whole Milk"], Q(50)))>>>>

\* Lines 138-144.
msnfSuggestion(rcp, m) ==
    IF /\ ~checkTarget(m.msnf, engineTargets.msnf)
       /\ engineBelow(m.msnf, m.totalMSNF, m.totalWeight, engineTargets.msnf.min)
    THEN <<<<engineWrite("Whole Milk", Add(rcp["Whole Milk"], Q(30)))>>>>
    ELSE <<>>

\* Lines 147-161.
sweetnessSuggestion(rcp, m) ==
    IF checkTarget(m.sweetness, engineTargets.sweetness) THEN <<>>
    ELSE IF engineBelow(m.sweetness, m.totalSugar, m.totalWeight,
                        engineTargets.sweetness.min)
    THEN <<<<engineWrite("Sugar", Add(rcp["Sugar"], Q(15)))>>>>
    ELSE <<<<engineWrite("Sugar", Sub(rcp["Sugar"], Q(12)))>>>>

\* Lines 117-164: the suggestions of a render, each the list of writes of its action.
generateOptimizationSuggestions(rcp) ==
    fatSuggestion(rcp, engineRecipeMetrics(rcp))
        \o msnfSuggestion(rcp, engineRecipeMetrics(rcp))
        \o sweetnessSuggestion(rcp, engineRecipeMetrics(rcp))

\* Lines 168-173: setRecipe(prev => ({...prev, [ingredient]: Number(value) || 0}))
updateRecipe(rcp, ingredient, value) == [rcp EXCEPT ![ingredient] = OrElse(value, Q(0))]

\* A suggestion's action run on the recipe state: its writes in order.
RECURSIVE runAction(_, _)
runAction(rcp, writes) ==
    IF writes = <<>> THEN rcp
    ELSE updateRecipe(runAction(rcp, SubSeq(writes, 1, Len(writes) - 1)),
                      writes[Len(writes)].ingredient, writes[Len(writes)].value)

\* Lines 181-185: suggestions.forEach(suggestion => suggestion.action())
RECURSIVE runSuggestions(_, _)
runSuggestions(rcp, suggestions) ==
    IF suggestions = <<>> THEN rcp
    ELSE runAction(runSuggestions(rcp, SubSeq(suggestions, 1, Len(suggestions) - 1)),
                   suggestions[Len(suggestions)])

(***************************************************************************)
(* Events of the FlavourEngine component                                   *)
(***************************************************************************)
MaxEvents == 3

engineRecipe(hc, wm, sugar, egg, stab) ==
    [k \in {"Heavy Cream", "Whole Milk", "Sugar", "Egg Yolks", "Stabilizer"} |->
        CASE k = "Heavy Cream" -> Q(hc) [] k = "Whole Milk" -> Q(wm) [] k = "Sugar" -> Q(sugar)
          [] k = "Egg Yolks" -> Q(egg) [] k = "Stabilizer" -> Q(stab)]

\* Lines 41-47: the recipe the component starts with; and recipes a user has typed:
\* egg yolks alone, sugar alone, milk and sugar, nothing.
EngineRecipes ==
    {engineRecipe(500, 250, 120, 100, 2), engineRecipe(0, 0, 0, 100, 0),
     engineRecipe(0, 0, 10, 0, 0), engineRecipe(0, 700, 120, 0, 0),
     engineRecipe(0, 0, 0, 0, 0)}

\* What a user types into an amount field (line 296).
EditedIngredients == {"Heavy Cream", "Sugar"}
EditedValues == {Q(0), Q(40), Q(600)}

InitEngine ==
    /\ call = "FlavourEngine"
    /\ engine \in [recipe : EngineRecipes, isOptimizing : {FALSE}, pending : {<<>>},
                   events : {0}]
    /\ CalcIdle
    /\ ClsIdle
    /\ ValIdle
    /\ AdvIdle
    /\ OptIdle

engineFrame == <<call, calcVars, clsVars, valVars, advVars, optVars>>

\* Line 296: onChange of an amount field.
EditAmount ==
    /\ call = "FlavourEngine"
    /\ engine.events < MaxEvents
    /\ \E ingredient \in EditedIngredients, value \in EditedValues :
          engine' = [engine EXCEPT
                       !.recipe = updateRecipe(@, ingredient, value),
                       !.events = @ + 1]
    /\ UNCHANGED engineFrame

\* Line 396: the Apply Fix button of one suggestion of the current render.
ApplyFix ==
    /\ call = "FlavourEngine"
    /\ engine.events < MaxEvents
    /\ \E k \in 1..Len(generateOptimizationSuggestions(engine.recipe)) :
          engine' = [engine EXCEPT
                       !.recipe = runAction(@, generateOptimizationSuggestions(@)[k]),
                       !.events = @ + 1]
    /\ UNCHANGED engineFrame

\* Lines 175-179 (button at 406-410): handleAutoOptimize up to its await; the
\* suggestions of the render it was called in stay with the pending continuation.
StartAutoOptimize ==
    /\ call = "FlavourEngine"
    /\ engine.events < MaxEvents
    /\ ~allTargetsMet(engine.recipe)
    /\ ~engine.isOptimizing
    /\ engine' = [engine EXCEPT
                    !.isOptimizing = TRUE,
                    !.pending = <<generateOptimizationSuggestions(engine.recipe)>>,
                    !.events = @ + 1]
    /\ UNCHANGED engineFrame

\* Lines 180-188: the continuation after the 2-second timer.
FinishAutoOptimize ==
    /\ call = "FlavourEngine"
    /\ engine.pending # <<>>
    /\ engine' = [engine EXCEPT
                    !.recipe = runSuggestions(@, engine.pending[1]),
                    !.isOptimizing = FALSE,
                    !.pending = <<>>]
    /\ UNCHANGED engineFrame

NextEngine == EditAmount \/ ApplyFix \/ StartAutoOptimize \/ FinishAutoOptimize

SpecEngine == InitEngine /\ [][NextEngine]_vars

(***************************************************************************)
(* Interleaved calls of calcMetrics, classifyRecipe,                       *)
(* generateValidationMessages and advise on arguments held by the caller.  *)
(* Each call appends its result to the results of that function; none of   *)
(* the four assigns to an argument or to a module-level binding.           *)
(***************************************************************************)
PureRows == {sucroseRecipe, dextroseRecipe}
PureOpts == {[evaporation_pct |-> Undefined], [evaporation_pct |-> Q(50)]}
PureClassifierInputs ==
    {m \in ClassifierInputs :
        /\ m.ts_additive = Q(38) /\ m.sugars = Dec(1875, 100) /\ m.fat = Dec(825, 100)
        /\ m.msnf = Dec(95, 10) /\ m.pac = Q(25) /\ m.sp \in {Q(17), NaN}}
PureValidationInputs ==
    {v \in ValidationInputs :
        /\ v.metrics \in {[pac |-> Q(21), ts_additive |-> Q(35), sugars |-> Q(23), fat |-> Q(3)],
                          [pac |-> Q(25), ts_additive |-> Q(40), sugars |-> Q(16), fat |-> Q(6)]}
        /\ DOMAIN v.targets = DOMAIN ValidationBands
        /\ v.productType = "white_base"}
PureAdviseInputs ==
    {a \in [paste : PasteInputs, prefs : PrefsInputs] :
        /\ a.paste.category = "fruit" /\ a.paste.msnf_pct = Undefined
        /\ a.paste.lab = <<[pH |-> Dec(35, 10), brix_deg |-> Q(65)]>>
        /\ a.prefs \in {NoPrefs, <<[ambientPreferred |-> <<TRUE>>, particulate_mm |-> Q(6)]>>}}

InitInterleaved ==
    /\ call = "interleaved"
    /\ rows \in PureRows
    /\ opts \in PureOpts
    /\ recipe = <<>>
    /\ evaporationPct = Q(0)
    /\ metrics = <<>>
    /\ metricsRows = NoResult
    /\ recipeMetrics = NoResult
    /\ legacyRows = NoResult
    /\ clsInput \in PureClassifierInputs
    /\ clsOutput = <<>>
    /\ valInput \in PureValidationInputs
    /\ valOutput = <<>>
    /\ advInput \in PureAdviseInputs
    /\ advOutput = <<>>
    /\ OptIdle
    /\ EngIdle

\* calc.ts 41-88.
CallCalcMetrics ==
    /\ call = "interleaved"
    /\ Len(metrics) < MaxCalls
    /\ metrics' = Append(metrics, calcMetrics(rows, opts))
    /\ UNCHANGED <<call, rows, opts, recipe, evaporationPct, metricsRows, recipeMetrics,
                   legacyRows, clsVars, valVars, advVars, optVars, engine>>

\* calc.ts 288-303.
CallClassifyRecipe ==
    /\ call = "interleaved"
    /\ Len(clsOutput) < MaxCalls
    /\ clsOutput' = Append(clsOutput, classifyRecipe(clsInput))
    /\ UNCHANGED <<call, calcVars, clsInput, valVars, advVars, optVars, engine>>

\* Variant: the messages array kept at module level, so a call returns the messages of
\* the calls before it too.
CallGenerateValidationMessages_sharedMessages ==
    /\ call = "interleaved"
    /\ Len(valOutput) < MaxCalls
    /\ valOutput' =
          Append(valOutput,
                 (IF valOutput = <<>> THEN <<>> ELSE valOutput[Len(valOutput)])
                     \o generateValidationMessages(valInput.metrics, valInput.targets,
                                                   valInput.productType))
    /\ UNCHANGED <<call, calcVars, clsVars, valInput, advVars, optVars, engine>>

\* calc.ts 314-352.
CallGenerateValidationMessages ==
    /\ call = "interleaved"
    /\ Len(valOutput) < MaxCalls
    /\ valOutput' = Append(valOutput,
                           generateValidationMessages(valInput.metrics, valInput.targets,
                                                      valInput.productType))
    /\ UNCHANGED <<call, calcVars, clsVars, valInput, advVars, optVars, engine>>

\* pasteAdvisorService.ts 4-96.
CallAdvise ==
    /\ call = "interleaved"
    /\ Len(advOutput) < MaxCalls
    /\ advOutput' = Append(advOutput, advise(advInput.paste, advInput.prefs))
    /\ UNCHANGED <<call, calcVars, clsVars, valVars, advInput, optVars, engine>>

NextInterleaved ==
    CallCalcMetrics \/ CallClassifyRecipe \/ CallGenerateValidationMessages \/ CallAdvise

SpecInterleaved == InitInterleaved /\ [][NextInterleaved]_vars

(***************************************************************************)
(* Properties of the metrics functions (checked under SpecCalc)            *)
(***************************************************************************)
Computed == metrics # NoResult
ComputedRows == metricsRows # NoResult
ComputedRecipe == recipeMetrics # NoResult

\* The sum of the line masses and the water the lines hold, before evaporation.
SumLineMasses(rws) == SumSeq([i \in 1..Len(rws) |-> rws[i].grams])
WaterInLines(rws) ==
    SumSeq([i \in 1..Len(rws) |-> Div(Mul(rws[i].grams, rws[i].ing.water_pct), Q(100))])

\* The evaporation percentage clamped to [0,100]; 0 when none is given.
ClampedPct(e) ==
    IF e = Undefined \/ Lt(e, Q(0)) THEN Q(0) ELSE IF Gt(e, Q(100)) THEN Q(100) ELSE e

EvaporatedWater(rws, e) == Div(Mul(WaterInLines(rws), ClampedPct(e)), Q(100))

\* C1: mass conservation: the total_g calcMetrics returns is the sum of the line
\* masses minus the evaporated water, (sum of grams * water_pct / 100) * e / 100 with
\* e the evaporation percentage clamped to [0,100].
C1_MassConservation ==
    Computed =>
        metrics[1].total_g =
            Sub(SumLineMasses(rows), EvaporatedWater(rows, opts.evaporation_pct))

\* A two-line recipe that holds water, half of it evaporated.
C1_Witness ==
    /\ Computed
    /\ Len(rows) = 2
    /\ opts.evaporation_pct = Q(50)
    /\ Gt(WaterInLines(rows), Q(0))
    /\ Lt(metrics[1].total_g, SumLineMasses(rows))

ScaleFactors == {Dec(1, 2), Q(2), Q(3)}

ScaleRows(rws, k) == [i \in 1..Len(rws) |-> [rws[i] EXCEPT !.grams = Mul(@, k)]]

\* C2: scale invariance: multiplying every line's grams by k > 0 leaves the sp and pac
\* of calcMetrics unchanged and multiplies total_g by k.
C2_ScaleInvariance ==
    Computed =>
        \A k \in ScaleFactors :
            /\ calcMetrics(ScaleRows(rows, k), opts).sp = metrics[1].sp
            /\ calcMetrics(ScaleRows(rows, k), opts).pac = metrics[1].pac
            /\ calcMetrics(ScaleRows(rows, k), opts).total_g = Mul(k, metrics[1].total_g)

\* A recipe with sugar and water, half of the water evaporated.
C2_Witness ==
    /\ Computed
    /\ Len(rows) = 2
    /\ opts.evaporation_pct = Q(50)
    /\ Gt(metrics[1].sp, Q(0))
    /\ Gt(metrics[1].water_g, Q(0))

HasSucrose(rws) ==
    \E i \in 1..Len(rws) : rws[i].ing = catalog("sucrose") /\ Gt(rws[i].grams, Q(0))

\* Every line of catalog sucrose replaced by the same mass of catalog dextrose.
SucroseToDextrose(rws) ==
    [i \in 1..Len(rws) |->
        IF rws[i].ing = catalog("sucrose")
        THEN [rws[i] EXCEPT !.ing = catalog("dextrose")] ELSE rws[i]]

\* C3: substitution monotonicity: replacing the sucrose of a recipe mass for mass by
\* dextrose gives strictly lower sp and strictly higher pac; the 850 g milk_3 + 150 g
\* sucrose recipe of the test becomes its 850 g milk_3 + 150 g dextrose recipe.
C3_SubstitutionMonotone ==
    /\ SucroseToDextrose(sucroseRecipe) = dextroseRecipe
    /\ (Computed /\ HasSucrose(rows)) =>
          /\ Lt(calcMetrics(SucroseToDextrose(rows), opts).sp, metrics[1].sp)
          /\ Gt(calcMetrics(SucroseToDextrose(rows), opts).pac, metrics[1].pac)

C3_Witness == Computed /\ rows = sucroseRecipe /\ Gt(metrics[1].sp, Q(0))

Between(x, lo, hi) == Gt(x, Q(lo)) /\ Lt(x, Q(hi))

\* C4: scenario A: milk_3 580 g, cream_25 200 g, sucrose 170 g, smp 45 g, stabilizer
\* 5 g, no evaporation: total_g within 0.5 of 1000, ts_add_pct in (32,38), fat_pct in
\* (7,10), sugars_pct in (16,20), msnf_pct in (8,12), sp in (14,22), pac in (20,30).
C4_ScenarioA ==
    (Computed /\ rows = ScenarioA /\ opts.evaporation_pct = Undefined) =>
        /\ Lt(MathAbs(Sub(metrics[1].total_g, Q(1000))), Dec(5, 10))
        /\ Between(metrics[1].ts_add_pct, 32, 38)
        /\ Between(metrics[1].fat_pct, 7, 10)
        /\ Between(metrics[1].sugars_pct, 16, 20)
        /\ Between(metrics[1].msnf_pct, 8, 12)
        /\ Between(metrics[1].sp, 14, 22)
        /\ Between(metrics[1].pac, 20, 30)

MetricsNumbers(m) ==
    {m.total_g, m.water_g, m.sugars_g, m.fat_g, m.msnf_g, m.other_g, m.water_pct,
     m.sugars_pct, m.fat_pct, m.msnf_pct, m.other_pct, m.ts_add_g, m.ts_mass_g,
     m.ts_add_pct, m.ts_mass_pct, m.sp, m.pac}

MetricsPercentages(m) ==
    {m.water_pct, m.sugars_pct, m.fat_pct, m.msnf_pct, m.other_pct, m.ts_add_pct,
     m.ts_mass_pct}

RecipeNumbers(m) ==
    {m.water, m.sugars, m.fat, m.msnf, m.other_solids, m.ts_additive, m.ts_mass_balance,
     m.sp, m.pac, m.total_weight, m.cost_per_batch, m.ts_difference}
        \cup {m.sp_contributions[k] : k \in DOMAIN m.sp_contributions}
        \cup {m.pac_contributions[k] : k \in DOMAIN m.pac_contributions}

RecipePercentages(m) ==
    {m.water, m.sugars, m.fat, m.msnf, m.other_solids, m.ts_additive, m.ts_mass_balance}

\* C5: no division by a zero denominator: when the total mass after evaporation is
\* <= 0, calcMetrics returns 0 for every percentage and for sp and pac, and
\* calculateRecipeMetrics returns 0 for every percentage when total_weight is not
\* positive; no number returned is NaN or infinite.
C5_NoZeroDivision ==
    /\ Computed =>
          /\ \A x \in MetricsNumbers(metrics[1]) : IsFinite(x)
          /\ Le(metrics[1].total_g, Q(0)) =>
                /\ \A x \in MetricsPercentages(metrics[1]) : x = Q(0)
                /\ metrics[1].sp = Q(0)
                /\ metrics[1].pac = Q(0)
    /\ ComputedRecipe =>
          /\ \A x \in RecipeNumbers(recipeMetrics[1]) : IsFinite(x)
          /\ Le(recipeMetrics[1].total_weight, Q(0)) =>
                \A x \in RecipePercentages(recipeMetrics[1]) : x = Q(0)

\* A recipe of water only, all of it evaporated: the total after evaporation is 0.
C5_Witness ==
    /\ Computed
    /\ Gt(SumLineMasses(rows), Q(0))
    /\ metrics[1].total_g = Q(0)

CompositionSum(ing) ==
    Add(Add(Add(Add(OrElse(ing.water_pct, Q(0)), OrElse(ing.sugars_pct, Q(0))),
                OrElse(ing.fat_pct, Q(0))), OrElse(ing.msnf_pct, Q(0))),
        OrElse(ing.other_solids_pct, Q(0)))

WellFormed(ing) == CompositionSum(ing) = Q(100)

WellFormedRows(rws) == \A i \in 1..Len(rws) : WellFormed(rws[i].ing)

\* The entries of a name-keyed recipe that the catalog resolves hold well-formed data.
WellFormedRecipe(rcp) ==
    \A i \in 1..Len(rcp) :
        getIngredientByName(rcp[i].name) # Null =>
            WellFormed(getIngredientByName(rcp[i].name)[1])

\* C6: TS consistency: when every ingredient's water, sugars, fat, msnf and other
\* solids percentages sum to 100 and the evaporation is zero, the additive and the
\* mass-balance total solids percentages are equal, in calcMetrics and in
\* calculateRecipeMetrics.
C6_TSConsistency ==
    /\ (Computed /\ WellFormedRows(rows) /\ opts.evaporation_pct \in {Q(0), Undefined}) =>
          metrics[1].ts_add_pct = metrics[1].ts_mass_pct
    /\ (ComputedRecipe /\ WellFormedRecipe(recipe) /\ evaporationPct = Q(0)) =>
          recipeMetrics[1].ts_additive = recipeMetrics[1].ts_mass_balance

\* Two well-formed lines, one of them holding other solids, with solids and water.
C6_Witness ==
    /\ Computed
    /\ WellFormedRows(rows)
    /\ opts.evaporation_pct = Q(0)
    /\ Len(rows) = 2
    /\ Gt(metrics[1].other_g, Q(0))
    /\ Gt(metrics[1].water_g, Q(0))
    /\ Gt(metrics[1].ts_add_pct, Q(0))

SplitSum(s) ==
    Add(Add(Nullish(s.glucose, Q(0)), Nullish(s.fructose, Q(0))), Nullish(s.sucrose, Q(0)))

IsSplitFruit(ing) == ing.category = "fruit" /\ ing.sugar_split # NoSplit

\* The same split scaled so that its three parts sum to 100.
RenormalizedSplit(s) ==
    [glucose |-> Div(Mul(Nullish(s.glucose, Q(0)), Q(100)), SplitSum(s)),
     fructose |-> Div(Mul(Nullish(s.fructose, Q(0)), Q(100)), SplitSum(s)),
     sucrose |-> Div(Mul(Nullish(s.sucrose, Q(0)), Q(100)), SplitSum(s))]

RenormalizedRows(rws) ==
    [i \in 1..Len(rws) |->
        IF IsSplitFruit(rws[i].ing) /\ Gt(SplitSum(rws[i].ing.sugar_split[1]), Q(0))
        THEN [rws[i] EXCEPT !.ing.sugar_split = <<RenormalizedSplit(@[1])>>]
        ELSE rws[i]]

HasUnnormalizedFruit(rws) ==
    \E i \in 1..Len(rws) :
        /\ IsSplitFruit(rws[i].ing)
        /\ Gt(rws[i].grams, Q(0))
        /\ Gt(SplitSum(rws[i].ing.sugar_split[1]), Q(0))
        /\ SplitSum(rws[i].ing.sugar_split[1]) # Q(100)

\* The coefficient of a fruit's sugar: the shares of its split weighted by the
\* coefficients of dextrose (for glucose), fructose and sucrose.
FruitCoeff(s, dex, fru, suc) ==
    Div(Add(Add(Mul(Nullish(s.glucose, Q(0)), dex), Mul(Nullish(s.fructose, Q(0)), fru)),
            Mul(Nullish(s.sucrose, Q(0)), suc)),
        SplitSum(s))

FruitSP(s) == FruitCoeff(s, Dec(74, 100), Dec(173, 100), Q(1))
FruitPAC(s) == FruitCoeff(s, Dec(190, 100), Dec(190, 100), Q(1))

SugarMass(line) == Div(Mul(line.grams, OrElse(line.ing.sugars_pct, Q(0))), Q(100))

\* What the fruit lines with a split add to sp (k = "sp") or pac (k = "pac") on a
\* final mass T.
FruitLinesTerm(rws, k, T) ==
    SumSeq([i \in 1..Len(rws) |->
        IF IsSplitFruit(rws[i].ing) /\ Gt(SugarMass(rws[i]), Q(0))
        THEN Mul(Div(Mul(SugarMass(rws[i]), Q(100)), T),
                 IF k = "sp" THEN FruitSP(rws[i].ing.sugar_split[1])
                 ELSE FruitPAC(rws[i].ing.sugar_split[1]))
        ELSE Q(0)])

\* What the other lines add.
OtherLinesTerm(rws, k, T) ==
    SumSeq([i \in 1..Len(rws) |->
        IF IsSplitFruit(rws[i].ing) THEN Q(0) ELSE rowsTerm(rws[i], k, T)])

HasOverride(ing) == ing.sp_coeff # Undefined /\ ing.pac_coeff # Undefined

\* The coefficient the stated priority gives a line: (a) the ingredient's own
\* coefficient, else (b) the split of a fruit, else (c) the table entry matched by id,
\* which is sucrose's when nothing matches.
ResolvedCoeff(ing, k) ==
    IF HasOverride(ing) THEN (IF k = "sp" THEN ing.sp_coeff ELSE ing.pac_coeff)
    ELSE IF IsSplitFruit(ing)
         THEN (IF k = "sp" THEN FruitSP(ing.sugar_split[1])
               ELSE FruitPAC(ing.sugar_split[1]))
         ELSE tableCoeff(ing)[k]

ResolvedSum(rws, k, T) ==
    SumSeq([i \in 1..Len(rws) |->
        IF Gt(SugarMass(rws[i]), Q(0)) /\ Gt(T, Q(0))
        THEN Mul(Div(Mul(SugarMass(rws[i]), Q(100)), T), ResolvedCoeff(rws[i].ing, k))
        ELSE Q(0)])

Unmatched(ing) ==
    /\ ~HasOverride(ing)
    /\ ~IsSplitFruit(ing)
    /\ tableCoeff(ing) = coeff.sucrose
    /\ toLowerCase(ing.id) # "sucrose"

\* Every line of an ingredient with no override, no split and no table match replaced
\* by the same mass of sugar as catalog sucrose.
AsSucrose(rws) ==
    [i \in 1..Len(rws) |->
        IF Unmatched(rws[i].ing)
        THEN [ing |-> catalog("sucrose"), grams |-> SugarMass(rws[i])]
        ELSE rws[i]]

\* C8: coefficient resolution order: the sp and pac of calcMetrics and of the table
\* body are the sums of the lines' sugar weighted by the coefficient chosen by the
\* priority override, fruit split, table entry, sucrose baseline; and sugar with no
\* override, no split and no match adds what the same mass of sucrose adds.
C8_ResolutionOrder ==
    /\ Computed =>
          /\ metrics[1].sp = ResolvedSum(rows, "sp", metrics[1].total_g)
          /\ metrics[1].pac = ResolvedSum(rows, "pac", metrics[1].total_g)
          /\ \A i \in 1..Len(rows) :
                Unmatched(rows[i].ing) =>
                    /\ sugarTerm(rows[i], spCoeff(rows[i].ing), metrics[1].total_g)
                         = sugarTerm(AsSucrose(rows)[i], spCoeff(catalog("sucrose")),
                                     metrics[1].total_g)
                    /\ sugarTerm(rows[i], pacCoeff(rows[i].ing), metrics[1].total_g)
                         = sugarTerm(AsSucrose(rows)[i], pacCoeff(catalog("sucrose")),
                                     metrics[1].total_g)
    /\ ComputedRows =>
          /\ metricsRows[1].sp = ResolvedSum(rows, "sp", metricsRows[1].total_g)
          /\ metricsRows[1].pac = ResolvedSum(rows, "pac", metricsRows[1].total_g)

(***************************************************************************)
(* Properties of the classifier (checked under SpecClassify)               *)
(***************************************************************************)
Archetypes == {"white_base", "finished_gelato", "fruit_gelato", "sorbet"}

Centroid(a) ==
    CASE a = "white_base" ->
           [ts |-> Dec(345, 10), sugars |-> Dec(175, 10), fat |-> Q(5),
            msnf |-> Dec(95, 10), sp |-> Q(17), pac |-> Q(25)]
      [] a = "finished_gelato" ->
           [ts |-> Dec(415, 10), sugars |-> Q(20), fat |-> Dec(115, 10),
            msnf |-> Dec(95, 10), sp |-> Q(17), pac |-> Q(25)]
      [] a = "fruit_gelato" ->
           [ts |-> Q(37), sugars |-> Q(23), fat |-> Dec(65, 10), msnf |-> Q(5),
            sp |-> Q(22), pac |-> Q(27)]
      [] a = "sorbet" ->
           [ts |-> Q(37), sugars |-> Dec(285, 10), fat |-> Q(0), msnf |-> Q(0),
            sp |-> Q(24), pac |-> Dec(305, 10)]

Sq(x) == Mul(x, x)

WeightedSquaredDistance(m, c) ==
    Add(Add(Add(Add(Add(Sq(Sub(m.ts_additive, c.ts)), Sq(Sub(m.sugars, c.sugars))),
                    Sq(Sub(m.fat, c.fat))), Sq(Sub(m.msnf, c.msnf))),
            Mul(Dec(5, 10), Sq(Sub(m.sp, c.sp)))),
        Mul(Dec(5, 10), Sq(Sub(m.pac, c.pac))))

\* C10: nearest centroid: no archetype is strictly closer to the input, in the weighted
\* squared distance over (ts_additive, sugars, fat, msnf, sp, pac) with weights
\* (1, 1, 1, 1, 0.5, 0.5), than the archetype classifyRecipe returns.
C10_NearestCentroid ==
    \A i \in 1..Len(clsOutput) :
        /\ clsOutput[i] \in Archetypes
        /\ \A a \in Archetypes :
              ~Lt(WeightedSquaredDistance(clsInput, Centroid(a)),
                  WeightedSquaredDistance(clsInput, Centroid(clsOutput[i])))

\* An input for which fruit_gelato, third of the four keys, is strictly the nearest.
C10_Witness ==
    /\ Len(clsOutput) >= 1
    /\ clsOutput[1] = "fruit_gelato"
    /\ \A a \in Archetypes \ {"fruit_gelato"} :
          Lt(WeightedSquaredDistance(clsInput, Centroid("fruit_gelato")),
             WeightedSquaredDistance(clsInput, Centroid(a)))

(***************************************************************************)
(* Properties of the band checks (checked under SpecValidate)              *)
(***************************************************************************)
Validated == valOutput # NoResult

InBand(v, lo, hi) == Le(lo, v) /\ Le(v, hi)

OnEdge(v, lo, hi) == v = lo \/ v = hi

\* The metric each row of the checklist shows.
ChecklistValue(m, f) ==
    CASE f = "ts" -> m.ts_add_pct
      [] f = "fat" -> m.fat_pct
      [] f = "sugar" -> m.sugars_pct
      [] f = "msnf" -> m.msnf_pct
      [] f = "sp" -> m.sp
      [] f = "pac" -> m.pac

ChecklistFields == {"ts", "fat", "sugar", "msnf", "sp", "pac"}

EngineFields == {"totalSolids", "fat", "msnf", "pac", "sweetness"}

\* The metric each key of the validation targets is about.
ValidationValue(m, f) ==
    CASE f = "pac" -> m.pac
      [] f = "total_solids" -> m.ts_additive
      [] f = "sugar" -> m.sugars
      [] f = "fat" -> m.fat

MessagesFor(msgs, f) == {i \in 1..Len(msgs) : msgs[i].field = f}

\* C11: band check: a parameter passes exactly when min <= value <= max, both edges
\* included, in the checklist rows and in checkTargets; and generateValidationMessages
\* reports no field whose value is on an edge of its band.
C11_BandCheck ==
    Validated =>
        /\ valInput.kind = "ScienceChecklist" =>
              /\ \A f \in ChecklistFields :
                    (valOutput[1][f] = "pass") <=>
                        InBand(ChecklistValue(valInput.metrics, f),
                               valInput.bands[f][1], valInput.bands[f][2])
              /\ valOutput[1].stabilizer # "none" =>
                    ((valOutput[1].stabilizer = "pass") <=>
                        InBand(valInput.stabilizerPct, valInput.bands.stabilizer[1],
                               valInput.bands.stabilizer[2]))
              /\ valOutput[1].fruitPct # "none" =>
                    ((valOutput[1].fruitPct = "pass") <=>
                        InBand(valInput.fruitPct, valInput.bands.fruitPct[1],
                               valInput.bands.fruitPct[2]))
        /\ valInput.kind = "checkTargets" =>
              \A f \in EngineFields :
                  valOutput[1][f] <=>
                      InBand(valInput.metrics[f], engineTargets[f].min, engineTargets[f].max)
        /\ valInput.kind = "generateValidationMessages" =>
              \A f \in DOMAIN valInput.targets :
                  OnEdge(ValidationValue(valInput.metrics, f), valInput.targets[f][1],
                         valInput.targets[f][2])
                      => MessagesFor(valOutput[1], f) = {}

\* A checklist whose total solids sit on the upper edge of the band and pass, next to
\* a PAC that is not a number and fails.
C11_Witness ==
    /\ Validated
    /\ valInput.kind = "ScienceChecklist"
    /\ valInput.metrics.ts_add_pct = valInput.bands.ts[2]
    /\ valOutput[1].ts = "pass"
    /\ valOutput[1].pac # "pass"

Outside(v, lo, hi) == Lt(v, lo) \/ Gt(v, hi)

\* C12: message on every failure: generateValidationMessages emits at least one message
\* for every field that has a band in the targets and whose value is below the min or
\* above the max, and no message when every banded field is inside its band.
C12_MessageOnFailure ==
    (Validated /\ valInput.kind = "generateValidationMessages") =>
        /\ \A f \in DOMAIN valInput.targets :
              Outside(ValidationValue(valInput.metrics, f), valInput.targets[f][1],
                      valInput.targets[f][2])
                  => MessagesFor(valOutput[1], f) # {}
        /\ (\A f \in DOMAIN valInput.targets :
               InBand(ValidationValue(valInput.metrics, f), valInput.targets[f][1],
                      valInput.targets[f][2]))
              => valOutput[1] = <<>>

(***************************************************************************)
(* Properties of the advisor (checked under SpecAdvise)                    *)
(***************************************************************************)
Advised == advOutput # NoResult

Methods(adv) == {adv[i].method : i \in 1..Len(adv)}

EntriesOf(adv, mth) == {i \in 1..Len(adv) : adv[i].method = mth}

\* C13: advisor ordering and floor: whatever the paste (with or without lab values) and
\* the preferences (given or not), the confidences of the list advise returns never
\* increase from one entry to the next, and the list holds a frozen and a freeze_dry
\* entry.
C13_OrderingAndFloor ==
    Advised =>
        /\ \A i \in 1..(Len(advOutput[1]) - 1) :
              Ge(advOutput[1][i].confidence, advOutput[1][i + 1].confidence)
        /\ {"frozen", "freeze_dry"} \subseteq Methods(advOutput[1])

\* hot_fill, pushed first, sorted behind the two entries of the floor, for a paste
\* whose preferences are not given.
C13_Witness ==
    /\ Advised
    /\ advInput.prefs = <<>>
    /\ Len(advOutput[1]) = 3
    /\ advOutput[1][1].method = "frozen"
    /\ advOutput[1][2].method = "freeze_dry"
    /\ advOutput[1][3].method = "hot_fill"

PasteIsDairy == advInput.paste.category = "dairy" \/ Gt(advInput.paste.msnf_pct, Q(1))

GivenPH == IF advInput.paste.lab = <<>> THEN Undefined ELSE advInput.paste.lab[1].pH

GivenBrix == IF advInput.paste.lab = <<>> THEN Undefined ELSE advInput.paste.lab[1].brix_deg

ParticleSize ==
    IF advInput.prefs = <<>> \/ advInput.prefs[1].particulate_mm = Undefined THEN Q(2)
    ELSE advInput.prefs[1].particulate_mm

AmbientFlagSet ==
    /\ advInput.prefs # <<>>
    /\ advInput.prefs[1].ambientPreferred = <<TRUE>>

\* C14: hot_fill rule: the list holds a hot_fill entry exactly when the paste is not
\* dairy (category not dairy and MSNF% at most 1), a pH is given and is <= 4.6, a Brix
\* is given and is >= 55, and the particle size (2 mm when none is given) is <= 5 mm;
\* the entry's confidence is 0.7.
C14_HotFillRule ==
    Advised =>
        /\ ("hot_fill" \in Methods(advOutput[1])) <=>
              /\ ~PasteIsDairy
              /\ IsFinite(GivenPH) /\ Le(GivenPH, Dec(46, 10))
              /\ IsFinite(GivenBrix) /\ Ge(GivenBrix, Q(55))
              /\ Le(ParticleSize, Q(5))
        /\ \A i \in EntriesOf(advOutput[1], "hot_fill") :
              advOutput[1][i].confidence = Dec(7, 10)

\* A fruit paste at pH 4.6 and 55 Bx with 5 mm particles: every limit met on its edge.
C14_Witness ==
    /\ Advised
    /\ "hot_fill" \in Methods(advOutput[1])
    /\ GivenPH = Dec(46, 10)
    /\ GivenBrix = Q(55)
    /\ ParticleSize = Q(5)

\* C15: retort rule: the list holds a retort entry exactly when (the paste is dairy, or
\* a pH is given and is > 4.6) and the ambientPreferred flag is set; the entry's
\* confidence is 0.7.
C15_RetortRule ==
    Advised =>
        /\ ("retort" \in Methods(advOutput[1])) <=>
              /\ PasteIsDairy \/ (IsFinite(GivenPH) /\ Gt(GivenPH, Dec(46, 10)))
              /\ AmbientFlagSet
        /\ \A i \in EntriesOf(advOutput[1], "retort") :
              advOutput[1][i].confidence = Dec(7, 10)

\* A paste that is dairy by its MSNF only, with no lab values, ambient preferred.
C15_Witness ==
    /\ Advised
    /\ "retort" \in Methods(advOutput[1])
    /\ advInput.paste.category # "dairy"
    /\ advInput.paste.lab = <<>>

(***************************************************************************)
(* Properties of the optimizer (checked under SpecOptimize)                *)
(***************************************************************************)
Returned == optState.pc = "done"

\* The iterations the cap still allows, and the step that returns.
StepsLeft ==
    (optInput.maxIterations - optState.iter) + (IF optState.pc = "loop" THEN 1 ELSE 0)

\* C16: optimizer termination: whatever the seed, the targets (reachable or not) and
\* maxIterations, optimize returns, and it never makes more than maxIterations calls of
\* the metrics calculation.
\* Every step of the loop lowers StepsLeft, which is never negative, so the loop
\* returns after at most maxIterations iterations, each with one call of calcMetrics.
C16_Termination ==
    [][/\ StepsLeft' < StepsLeft
       /\ StepsLeft' >= 0
       /\ optState'.calls <= optInput.maxIterations
       /\ optState'.calls - optState.calls <= 1]_vars

\* A search stopped by the cap: targets out of reach, every allowed call made.
C16_Witness ==
    /\ Returned
    /\ ~optState.converged
    /\ optInput.maxIterations = 3
    /\ optState.calls = 3

NonNegative(lines) == \A i \in 1..Len(lines) : Ge(lines[i].grams, Q(0))

\* C17: optimizer non-negativity: for seeds with masses >= 0, whatever the targets and
\* the step scale, no line of the current, of the best or of the returned recipe has a
\* negative mass.
C17_NonNegativeMasses ==
    /\ NonNegative(optState.lines)
    /\ NonNegative(optState.best)
    /\ \A k \in 1..Len(optState.visited) : NonNegative(optState.visited[k])
    /\ Returned => NonNegative(optimizeResult(optState).lines)

\* A returned search in which a step took more than a line held: the line was positive
\* in the seed and is 0 in a recipe visited later.
C17_Witness ==
    /\ Returned
    /\ \E k \in 1..Len(optState.visited) : \E i \in 1..Len(optInput.seed) :
          /\ Gt(optInput.seed[i].grams, Q(0))
          /\ optState.visited[k][i].grams = Q(0)

\* The aggregate squared error of a recipe against the targets of the call.
ErrorOf(lines) == aggregateError(calcMetrics(lines, NoOptions), optInput.targets)

\* C18: optimizer best effort: optimize returns also when the targets are not reached
\* within maxIterations, and the error of the recipe it returns is no larger than that
\* of the seed or of any recipe visited in an iteration.
C18_BestEffort ==
    Returned =>
        /\ Le(ErrorOf(optimizeResult(optState).lines), ErrorOf(optInput.seed))
        /\ \A k \in 1..Len(optState.visited) :
              Le(ErrorOf(optimizeResult(optState).lines), ErrorOf(optState.visited[k]))

\* A search that did not converge and whose last visited recipe is worse than the one
\* returned, which is not the seed.
C18_Witness ==
    /\ Returned
    /\ ~optState.converged
    /\ Len(optState.visited) = optInput.maxIterations
    /\ optInput.maxIterations >= 2
    /\ optimizeResult(optState).lines # optInput.seed
    /\ Lt(ErrorOf(optimizeResult(optState).lines),
          ErrorOf(optState.visited[Len(optState.visited)]))

(***************************************************************************)
(* Properties of unknown ingredients and of evaporation (checked under     *)
(* SpecCalc)                                                               *)
(***************************************************************************)
Converted == legacyRows # NoResult

\* The lines of a name-keyed recipe that carry mass, and those of them whose name
\* the catalog does not hold.
MassLines(rcp) == {i \in 1..Len(rcp) : Gt(rcp[i].amount, Q(0))}
UnknownLines(rcp) == {i \in MassLines(rcp) : getIngredientByName(rcp[i].name) = Null}

RECURSIVE SumAmounts(_)
SumAmounts(rcp) ==
    IF rcp = <<>> THEN Q(0)
    ELSE Add(SumAmounts(SubSeq(rcp, 1, Len(rcp) - 1)),
             MathMax(Q(0), rcp[Len(rcp)].amount))

WarnedAbout(messages, name) ==
    \E k \in 1..Len(messages) : messages[k] = <<"Warning: Unknown ingredient", name>>

\* C19: unknown ingredient: a recipe naming an ingredient the catalog does not hold is
\* computed all the same, with a warning for that line, and the line is part of the
\* result under a default composition: it has its sp and pac entries, and without
\* evaporation the total weight is the sum of the masses of all lines, the unknown
\* ones included; the rows the conversion makes of the recipe hold the line with its
\* mass too.
C19_UnknownIngredient ==
    /\ ComputedRecipe =>
          \A i \in UnknownLines(recipe) :
              /\ WarnedAbout(recipeMetrics[1].messages, recipe[i].name)
              /\ recipe[i].name \in DOMAIN recipeMetrics[1].sp_contributions
              /\ Le(evaporationPct, Q(0)) =>
                    recipeMetrics[1].total_weight = SumAmounts(recipe)
    /\ Converted =>
          /\ Len(legacyRows[1]) = Len(recipe)
          /\ \A i \in UnknownLines(recipe) : legacyRows[1][i].grams = recipe[i].amount
          /\ calcMetrics(legacyRows[1], NoOptions).total_g = SumAmounts(recipe)

\* The water mass calculateRecipeMetrics holds after its evaporation step.
RecipeWaterAfterEvaporation ==
    applyEvaporation(recipeTotals(recipe), evaporationPct).totalWater

\* C20: evaporation clamping: every metrics computation uses the evaporation
\* percentage clamped to [0,100], so above 100 it behaves as 100 and below 0 as 0, and
\* the water mass and the total mass after evaporation are never negative.
C20_EvaporationClamped ==
    /\ Computed =>
          /\ Ge(metrics[1].water_g, Q(0))
          /\ Ge(metrics[1].total_g, Q(0))
          /\ metrics[1] =
                calcMetrics(rows, [evaporation_pct |-> ClampedPct(opts.evaporation_pct)])
    /\ ComputedRecipe =>
          /\ Ge(RecipeWaterAfterEvaporation, Q(0))
          /\ Ge(recipeMetrics[1].total_weight, Q(0))
          /\ recipeMetrics[1].total_weight =
                calculateRecipeMetrics(recipe, ClampedPct(evaporationPct)).total_weight

(***************************************************************************)
(* Further properties of calculateRecipeMetrics (checked under SpecCalc)   *)
(***************************************************************************)
ScaleRecipe(rcp, k) == [i \in 1..Len(rcp) |-> [rcp[i] EXCEPT !.amount = Mul(@, k)]]

\* C21: scale invariance of the name-keyed form: multiplying every amount of the
\* recipe by k > 0 leaves the sp and pac calculateRecipeMetrics returns unchanged.
C21_RecipeScaleInvariance ==
    ComputedRecipe =>
        \A k \in ScaleFactors :
            /\ calculateRecipeMetrics(ScaleRecipe(recipe, k), evaporationPct).sp =
                  recipeMetrics[1].sp
            /\ calculateRecipeMetrics(ScaleRecipe(recipe, k), evaporationPct).pac =
                  recipeMetrics[1].pac

\* The masses calculateRecipeMetrics holds after its loop and its evaporation step.
RecipeMasses == applyEvaporation(recipeTotals(recipe), evaporationPct)

AdditiveSolids ==
    Add(Add(Add(RecipeMasses.totalSugars, RecipeMasses.totalFat), RecipeMasses.totalMsnf),
        RecipeMasses.totalOtherSolids)

MassBalanceSolids == Sub(RecipeMasses.totalWeight, RecipeMasses.totalWater)

TSMessage(messages) == \E k \in 1..Len(messages) : messages[k] = <<"TS methods differ">>

\* C23: TS discrepancy warning: calculateRecipeMetrics sets ts_warning, and adds the
\* 'TS methods differ' message, exactly when the additive and the mass-balance
\* total-solids masses differ by more than 0.5% of the total weight after evaporation.
C23_TSWarning ==
    ComputedRecipe =>
        /\ recipeMetrics[1].ts_warning <=>
              Gt(MathAbs(Sub(AdditiveSolids, MassBalanceSolids)),
                 Div(Mul(recipeMetrics[1].total_weight, Q(5)), Q(1000)))
        /\ TSMessage(recipeMetrics[1].messages) <=> recipeMetrics[1].ts_warning

\* Milk with all its water evaporated: its 0.2% discrepancy is more than 0.5% of what
\* is left.
C23_Witness ==
    /\ ComputedRecipe
    /\ evaporationPct = Q(100)
    /\ Gt(recipeMetrics[1].total_weight, Q(0))
    /\ recipeMetrics[1].ts_warning
    /\ TSMessage(recipeMetrics[1].messages)

\* The same milk with half of its water evaporated stays below the threshold.
C23_WitnessBelow ==
    /\ ComputedRecipe
    /\ evaporationPct = Q(50)
    /\ Gt(MathAbs(Sub(AdditiveSolids, MassBalanceSolids)), Q(0))
    /\ ~recipeMetrics[1].ts_warning

(***************************************************************************)
(* Properties of the catalog (checked under SpecCalc)                      *)
(***************************************************************************)
\* The coefficients sanity.spec.ts 129-143 expects, as <<id, sp_coeff, pac_coeff>>.
ExpectedCoefficients ==
    {<<"sucrose", Q(1), Q(100)>>, <<"dextrose", Dec(74, 100), Q(190)>>,
     <<"fructose", Dec(173, 100), Q(190)>>, <<"lactose", Dec(16, 100), Q(62)>>}

\* C24: catalog coefficient integrity: getIngredientById returns a record for each of
\* sucrose, dextrose, fructose and lactose, with sp_coeff and pac_coeff 1.00 and 100,
\* 0.74 and 190, 1.73 and 190, 0.16 and 62.  It is stated of the catalog as it is once
\* a metrics computation has run.
C24_CatalogCoefficients ==
    (Computed \/ ComputedRows \/ ComputedRecipe \/ Converted) =>
        \A e \in ExpectedCoefficients :
            /\ getIngredientById(e[1]) # Null
            /\ getIngredientById(e[1])[1].sp_coeff = e[2]
            /\ getIngredientById(e[1])[1].pac_coeff = e[3]

\* The part of C24 the catalog meets: the three sugars it holds.
CatalogSugarsHeld ==
    (Computed \/ ComputedRows \/ ComputedRecipe \/ Converted) =>
        \A e \in ExpectedCoefficients :
            getIngredientById(e[1]) # Null =>
                /\ getIngredientById(e[1])[1].sp_coeff = e[2]
                /\ getIngredientById(e[1])[1].pac_coeff = e[3]

(***************************************************************************)
(* Further properties of the advisor (checked under SpecAdvise)            *)
(***************************************************************************)
\* C25: hot_fill and retort are mutually exclusive: whatever the paste and the
\* preferences, the list advise returns never holds both a hot_fill and a retort
\* entry, so it has 2 or 3 entries and never 4.
C25_HotFillRetortExclusive ==
    Advised =>
        /\ ~({"hot_fill", "retort"} \subseteq Methods(advOutput[1]))
        /\ Len(advOutput[1]) \in {2, 3}

\* A dairy paste acid and sweet enough for hot fill, ambient storage asked for: retort
\* is offered, hot_fill is not.
C25_Witness ==
    /\ Advised
    /\ PasteIsDairy
    /\ GivenPH # Undefined
    /\ Le(GivenPH, Dec(46, 10))
    /\ GivenBrix # Undefined
    /\ Ge(GivenBrix, Q(55))
    /\ AmbientFlagSet
    /\ Methods(advOutput[1]) = {"retort", "frozen", "freeze_dry"}
    /\ Len(advOutput[1]) = 3

(***************************************************************************)
(* Further properties of the classifier (checked under SpecClassify)       *)
(***************************************************************************)
\* The priority order the tie-break is stated in, and an archetype's place in it.
PriorityOrder == <<"white_base", "finished_gelato", "fruit_gelato", "sorbet">>

Place(a) == CHOOSE i \in 1..Len(PriorityOrder) : PriorityOrder[i] = a

\* The archetypes at the minimum distance from the input.
Nearest ==
    {a \in Archetypes :
        \A b \in Archetypes :
            Le(WeightedSquaredDistance(clsInput, Centroid(a)),
               WeightedSquaredDistance(clsInput, Centroid(b)))}

\* C26: classifier tie-break: when two or more archetypes are at the same minimum
\* distance, classifyRecipe returns the one of them that comes last in the order
\* white_base, finished_gelato, fruit_gelato, sorbet.
C26_TieBreak ==
    \A i \in 1..Len(clsOutput) :
        Cardinality(Nearest) >= 2 =>
            /\ clsOutput[i] \in Nearest
            /\ \A a \in Nearest : Place(a) <= Place(clsOutput[i])

\* The midpoint of the white_base and finished_gelato centroids: finished_gelato, the
\* later of the two, is returned.
C26_Witness ==
    /\ Len(clsOutput) >= 1
    /\ Nearest = {"white_base", "finished_gelato"}
    /\ clsOutput[1] = "finished_gelato"

(***************************************************************************)
(* Further properties of calcMetrics (checked under SpecCalc)              *)
(***************************************************************************)
\* The masses of a Metrics record that are not water.
SolidMasses(m) == <<m.sugars_g, m.fat_g, m.msnf_g, m.other_g, m.ts_add_g, m.ts_mass_g>>

WithEvaporation(e) == calcMetrics(rows, [evaporation_pct |-> e])

\* C29: evaporation touches only water: the sugars_g, fat_g, msnf_g, other_g, ts_add_g
\* and ts_mass_g calcMetrics returns for a recipe are the same for every evaporation
\* percentage, given or not.
C29_EvaporationOnlyWater ==
    Computed =>
        \A e \in EvaporationInputs \cup {Undefined} :
            SolidMasses(WithEvaporation(e)) = SolidMasses(metrics[1])

\* A recipe with water and solids computed with half of the water evaporated: water_g
\* and total_g differ from those without evaporation.
C29_Witness ==
    /\ Computed
    /\ opts.evaporation_pct = Q(50)
    /\ Gt(metrics[1].ts_mass_g, Q(0))
    /\ Lt(metrics[1].water_g, WithEvaporation(Q(0)).water_g)
    /\ Lt(metrics[1].total_g, WithEvaporation(Q(0)).total_g)
    /\ metrics[1].sugars_pct # WithEvaporation(Q(0)).sugars_pct

(***************************************************************************)
(* Properties of name resolution (checked under SpecCalc)                  *)
(***************************************************************************)
IsCatalogRecord(ing) ==
    \E i \in 1..Len(DEFAULT_INGREDIENTS) : DEFAULT_INGREDIENTS[i] = ing

\* C30: name resolution agrees: for every name of a recipe that both
\* convertLegacyRecipeToRows and matchIngredientName resolve to a catalog record, the
\* two resolve it to the same record.
C30_NameResolutionAgrees ==
    Converted =>
        \A i \in 1..Len(recipe) :
            (/\ IsCatalogRecord(legacyRows[1][i].ing)
             /\ matchIngredientName(recipe[i].name) # Null)
            => legacyRows[1][i].ing = matchIngredientName(recipe[i].name)[1]

\* Names resolved by both, through the alias table on one side and through the fuzzy
\* match on the other, to the same record.
NamesAgreeing ==
    /\ Converted
    /\ \E i \in 1..Len(recipe) :
          /\ getIngredientByName(recipe[i].name) = Null
          /\ IsCatalogRecord(legacyRows[1][i].ing)
          /\ matchIngredientName(recipe[i].name) = <<legacyRows[1][i].ing>>

(***************************************************************************)
(* Properties of the FlavourEngine component (checked under SpecEngine)    *)
(***************************************************************************)
\* The step in which the suggestions of a started Auto-Optimize are applied.
SuggestionsApplied == engine.pending # <<>> /\ engine'.pending = <<>>

\* C27: no lost update during auto-optimize: when the suggestions of Auto-Optimize are
\* applied, the amounts written are computed from the recipe as it is then, edits made
\* during the wait included, not from the recipe Auto-Optimize was started on.
C27_NoLostUpdate ==
    [][SuggestionsApplied =>
          engine'.recipe =
              runSuggestions(engine.recipe, generateOptimizationSuggestions(engine.recipe))]_vars

\* C28: amounts stay non-negative under suggestions: from a recipe with amounts >= 0,
\* whatever suggestion actions and Auto-Optimize runs follow, every amount of the
\* recipe is >= 0.
C28_AmountsNonNegative ==
    \A k \in DOMAIN engine.recipe : Ge(engine.recipe[k], Q(0))

(***************************************************************************)
(* Purity (checked under SpecInterleaved)                                  *)
(***************************************************************************)
\* The arguments the caller holds.
Arguments == <<rows, opts, clsInput, valInput, advInput>>

\* Every result of a function is the result of its first call.
ResultsAgree(results) == \A i \in 1..Len(results) : results[i] = results[1]

====
